---- MODULE Spec2Model ----
(***************************************************************************)
(* Model of the Lex dialogue language: the line parser                     *)
(* (src/src/parser/functions.rs) builds a Dialogue from the lines of a     *)
(* text, and the traversal engine (src/src/player/mod.rs) walks a Dialogue *)
(* with a pop-driven work stack of DialogueState values (a section value   *)
(* and a step value). The parse of src/src/parser/mod.rs, which builds     *)
(* sections of pages, is modelled as one action of its own.                *)
(***************************************************************************)
EXTENDS Integers, Sequences, FiniteSets, TLC

\* ------------------------------------------------------------------ bounds
MaxSections == 2
MaxDocSteps == 3
MaxTicks == 6
\* The lines of a parsed text, and the tokens of a text given to parse_value.
MaxLines == 4
MaxTokens == 5

\* The number of steps of a document with nested bounces.
MaxNestedSteps == 5

\* ---------------------------------------------------------------- strings
\* A String is a sequence of characters. A character is written as a
\* one-character string; a character that cannot be written in a string of
\* this language (U+0000, U+0060, a code above U+00FF whose last byte is
\* below 80, a code above U+FFFF) is written as U+ and the four to six
\* hexadecimal digits of its code: "U+0253" is one character.
\* The characters of the property White_Space (char::is_whitespace).
Whitespace ==
    {"\t", "\n", "", "\f", "\r", " ", "", " ", " ", "U+2000", "U+2001",
     "U+2002", "U+2003", "U+2004", "U+2005", "U+2006", "U+2007", "U+2008",
     "U+2009", "U+200A", "U+2028", "U+2029", "U+202F", "U+205F", "U+3000"}

\* The characters with a one-character lowercase mapping and, at the same
\* index of LowerCase, their images (the table of char::to_lowercase, U+0130
\* apart, whose image has two characters).
UpperCase ==
    <<"A", "B", "C", "D", "E", "F", "G", "H", "I", "J", "K", "L", "M", "N",
      "O", "P", "Q", "R", "S", "T", "U", "V", "W", "X", "Y", "Z", "À", "Á",
      "Â", "Ã", "Ä", "Å", "Æ", "Ç", "È", "É", "Ê", "Ë", "Ì", "Í", "Î", "Ï",
      "Ð", "Ñ", "Ò", "Ó", "Ô", "Õ", "Ö", "Ø", "Ù", "Ú", "Û", "Ü", "Ý", "Þ",
      "U+0100", "U+0102", "U+0104", "U+0106", "U+0108", "U+010A", "U+010C",
      "U+010E", "U+0110", "U+0112", "U+0114", "U+0116", "U+0118", "U+011A",
      "U+011C", "U+011E", "U+0120", "U+0122", "U+0124", "U+0126", "U+0128",
      "U+012A", "U+012C", "U+012E", "U+0132", "U+0134", "U+0136", "U+0139",
      "U+013B", "U+013D", "U+013F", "U+0141", "U+0143", "U+0145", "U+0147",
      "U+014A", "U+014C", "U+014E", "U+0150", "U+0152", "U+0154", "U+0156",
      "U+0158", "U+015A", "U+015C", "U+015E", "U+0160", "U+0162", "U+0164",
      "U+0166", "U+0168", "U+016A", "U+016C", "U+016E", "U+0170", "U+0172",
      "U+0174", "U+0176", "U+0178", "U+0179", "U+017B", "U+017D", "Ɓ", "Ƃ",
      "Ƅ", "Ɔ", "Ƈ", "Ɖ", "Ɗ", "Ƌ", "Ǝ", "Ə", "Ɛ", "Ƒ", "Ɠ", "Ɣ", "Ɩ", "Ɨ",
      "Ƙ", "Ɯ", "Ɲ", "Ɵ", "Ơ", "Ƣ", "Ƥ", "Ʀ", "Ƨ", "Ʃ", "Ƭ", "Ʈ", "Ư", "Ʊ",
      "Ʋ", "Ƴ", "Ƶ", "Ʒ", "Ƹ", "Ƽ", "Ǆ", "ǅ", "Ǉ", "ǈ", "Ǌ", "ǋ", "Ǎ", "Ǐ",
      "Ǒ", "Ǔ", "Ǖ", "Ǘ", "Ǚ", "Ǜ", "Ǟ", "Ǡ", "Ǣ", "Ǥ", "Ǧ", "Ǩ", "Ǫ", "Ǭ",
      "Ǯ", "Ǳ", "ǲ", "Ǵ", "Ƕ", "Ƿ", "Ǹ", "Ǻ", "Ǽ", "Ǿ", "U+0200", "U+0202",
      "U+0204", "U+0206", "U+0208", "U+020A", "U+020C", "U+020E", "U+0210",
      "U+0212", "U+0214", "U+0216", "U+0218", "U+021A", "U+021C", "U+021E",
      "U+0220", "U+0222", "U+0224", "U+0226", "U+0228", "U+022A", "U+022C",
      "U+022E", "U+0230", "U+0232", "U+023A", "U+023B", "U+023D", "U+023E",
      "U+0241", "U+0243", "U+0244", "U+0245", "U+0246", "U+0248", "U+024A",
      "U+024C", "U+024E", "U+0370", "U+0372", "U+0376", "U+037F", "Ά", "Έ",
      "Ή", "Ί", "Ό", "Ύ", "Ώ", "Α", "Β", "Γ", "Δ", "Ε", "Ζ", "Η", "Θ", "Ι",
      "Κ", "Λ", "Μ", "Ν", "Ξ", "Ο", "Π", "Ρ", "Σ", "Τ", "Υ", "Φ", "Χ", "Ψ",
      "Ω", "Ϊ", "Ϋ", "Ϗ", "Ϙ", "Ϛ", "Ϝ", "Ϟ", "Ϡ", "Ϣ", "Ϥ", "Ϧ", "Ϩ", "Ϫ",
      "Ϭ", "Ϯ", "ϴ", "Ϸ", "Ϲ", "Ϻ", "Ͻ", "Ͼ", "Ͽ", "U+0400", "U+0401",
      "U+0402", "U+0403", "U+0404", "U+0405", "U+0406", "U+0407", "U+0408",
      "U+0409", "U+040A", "U+040B", "U+040C", "U+040D", "U+040E", "U+040F",
      "U+0410", "U+0411", "U+0412", "U+0413", "U+0414", "U+0415", "U+0416",
      "U+0417", "U+0418", "U+0419", "U+041A", "U+041B", "U+041C", "U+041D",
      "U+041E", "U+041F", "U+0420", "U+0421", "U+0422", "U+0423", "U+0424",
      "U+0425", "U+0426", "U+0427", "U+0428", "U+0429", "U+042A", "U+042B",
      "U+042C", "U+042D", "U+042E", "U+042F", "U+0460", "U+0462", "U+0464",
      "U+0466", "U+0468", "U+046A", "U+046C", "U+046E", "U+0470", "U+0472",
      "U+0474", "U+0476", "U+0478", "U+047A", "U+047C", "U+047E", "Ҁ", "Ҋ",
      "Ҍ", "Ҏ", "Ґ", "Ғ", "Ҕ", "Җ", "Ҙ", "Қ", "Ҝ", "Ҟ", "Ҡ", "Ң", "Ҥ", "Ҧ",
      "Ҩ", "Ҫ", "Ҭ", "Ү", "Ұ", "Ҳ", "Ҵ", "Ҷ", "Ҹ", "Һ", "Ҽ", "Ҿ", "Ӏ", "Ӂ",
      "Ӄ", "Ӆ", "Ӈ", "Ӊ", "Ӌ", "Ӎ", "Ӑ", "Ӓ", "Ӕ", "Ӗ", "Ә", "Ӛ", "Ӝ", "Ӟ",
      "Ӡ", "Ӣ", "Ӥ", "Ӧ", "Ө", "Ӫ", "Ӭ", "Ӯ", "Ӱ", "Ӳ", "Ӵ", "Ӷ", "Ӹ", "Ӻ",
      "Ӽ", "Ӿ", "U+0500", "U+0502", "U+0504", "U+0506", "U+0508", "U+050A",
      "U+050C", "U+050E", "U+0510", "U+0512", "U+0514", "U+0516", "U+0518",
      "U+051A", "U+051C", "U+051E", "U+0520", "U+0522", "U+0524", "U+0526",
      "U+0528", "U+052A", "U+052C", "U+052E", "U+0531", "U+0532", "U+0533",
      "U+0534", "U+0535", "U+0536", "U+0537", "U+0538", "U+0539", "U+053A",
      "U+053B", "U+053C", "U+053D", "U+053E", "U+053F", "U+0540", "U+0541",
      "U+0542", "U+0543", "U+0544", "U+0545", "U+0546", "U+0547", "U+0548",
      "U+0549", "U+054A", "U+054B", "U+054C", "U+054D", "U+054E", "U+054F",
      "U+0550", "U+0551", "U+0552", "U+0553", "U+0554", "U+0555", "U+0556",
      "Ⴀ", "Ⴁ", "Ⴂ", "Ⴃ", "Ⴄ", "Ⴅ", "Ⴆ", "Ⴇ", "Ⴈ", "Ⴉ", "Ⴊ", "Ⴋ", "Ⴌ", "Ⴍ",
      "Ⴎ", "Ⴏ", "Ⴐ", "Ⴑ", "Ⴒ", "Ⴓ", "Ⴔ", "Ⴕ", "Ⴖ", "Ⴗ", "Ⴘ", "Ⴙ", "Ⴚ", "Ⴛ",
      "Ⴜ", "Ⴝ", "Ⴞ", "Ⴟ", "Ⴠ", "Ⴡ", "Ⴢ", "Ⴣ", "Ⴤ", "Ⴥ", "Ⴧ", "Ⴭ", "Ꭰ", "Ꭱ",
      "Ꭲ", "Ꭳ", "Ꭴ", "Ꭵ", "Ꭶ", "Ꭷ", "Ꭸ", "Ꭹ", "Ꭺ", "Ꭻ", "Ꭼ", "Ꭽ", "Ꭾ", "Ꭿ",
      "Ꮀ", "Ꮁ", "Ꮂ", "Ꮃ", "Ꮄ", "Ꮅ", "Ꮆ", "Ꮇ", "Ꮈ", "Ꮉ", "Ꮊ", "Ꮋ", "Ꮌ", "Ꮍ",
      "Ꮎ", "Ꮏ", "Ꮐ", "Ꮑ", "Ꮒ", "Ꮓ", "Ꮔ", "Ꮕ", "Ꮖ", "Ꮗ", "Ꮘ", "Ꮙ", "Ꮚ", "Ꮛ",
      "Ꮜ", "Ꮝ", "Ꮞ", "Ꮟ", "Ꮠ", "Ꮡ", "Ꮢ", "Ꮣ", "Ꮤ", "Ꮥ", "Ꮦ", "Ꮧ", "Ꮨ", "Ꮩ",
      "Ꮪ", "Ꮫ", "Ꮬ", "Ꮭ", "Ꮮ", "Ꮯ", "Ꮰ", "Ꮱ", "Ꮲ", "Ꮳ", "Ꮴ", "Ꮵ", "Ꮶ", "Ꮷ",
      "Ꮸ", "Ꮹ", "Ꮺ", "Ꮻ", "Ꮼ", "Ꮽ", "Ꮾ", "Ꮿ", "Ᏸ", "Ᏹ", "Ᏺ", "Ᏻ", "Ᏼ", "Ᏽ",
      "Ᲊ", "Ა", "Ბ", "Გ", "Დ", "Ე", "Ვ", "Ზ", "Თ", "Ი", "Კ", "Ლ", "Მ", "Ნ",
      "Ო", "Პ", "Ჟ", "Რ", "Ს", "Ტ", "Უ", "Ფ", "Ქ", "Ღ", "Ყ", "Შ", "Ჩ", "Ც",
      "Ძ", "Წ", "Ჭ", "Ხ", "Ჯ", "Ჰ", "Ჱ", "Ჲ", "Ჳ", "Ჴ", "Ჵ", "Ჶ", "Ჷ", "Ჸ",
      "Ჹ", "Ჺ", "Ჽ", "Ჾ", "Ჿ", "U+1E00", "U+1E02", "U+1E04", "U+1E06",
      "U+1E08", "U+1E0A", "U+1E0C", "U+1E0E", "U+1E10", "U+1E12", "U+1E14",
      "U+1E16", "U+1E18", "U+1E1A", "U+1E1C", "U+1E1E", "U+1E20", "U+1E22",
      "U+1E24", "U+1E26", "U+1E28", "U+1E2A", "U+1E2C", "U+1E2E", "U+1E30",
      "U+1E32", "U+1E34", "U+1E36", "U+1E38", "U+1E3A", "U+1E3C", "U+1E3E",
      "U+1E40", "U+1E42", "U+1E44", "U+1E46", "U+1E48", "U+1E4A", "U+1E4C",
      "U+1E4E", "U+1E50", "U+1E52", "U+1E54", "U+1E56", "U+1E58", "U+1E5A",
      "U+1E5C", "U+1E5E", "U+1E60", "U+1E62", "U+1E64", "U+1E66", "U+1E68",
      "U+1E6A", "U+1E6C", "U+1E6E", "U+1E70", "U+1E72", "U+1E74", "U+1E76",
      "U+1E78", "U+1E7A", "U+1E7C", "U+1E7E", "Ẁ", "Ẃ", "Ẅ", "Ẇ", "Ẉ", "Ẋ",
      "Ẍ", "Ẏ", "Ẑ", "Ẓ", "Ẕ", "ẞ", "Ạ", "Ả", "Ấ", "Ầ", "Ẩ", "Ẫ", "Ậ", "Ắ",
      "Ằ", "Ẳ", "Ẵ", "Ặ", "Ẹ", "Ẻ", "Ẽ", "Ế", "Ề", "Ể", "Ễ", "Ệ", "Ỉ", "Ị",
      "Ọ", "Ỏ", "Ố", "Ồ", "Ổ", "Ỗ", "Ộ", "Ớ", "Ờ", "Ở", "Ỡ", "Ợ", "Ụ", "Ủ",
      "Ứ", "Ừ", "Ử", "Ữ", "Ự", "Ỳ", "Ỵ", "Ỷ", "Ỹ", "Ỻ", "Ỽ", "Ỿ", "U+1F08",
      "U+1F09", "U+1F0A", "U+1F0B", "U+1F0C", "U+1F0D", "U+1F0E", "U+1F0F",
      "U+1F18", "U+1F19", "U+1F1A", "U+1F1B", "U+1F1C", "U+1F1D", "U+1F28",
      "U+1F29", "U+1F2A", "U+1F2B", "U+1F2C", "U+1F2D", "U+1F2E", "U+1F2F",
      "U+1F38", "U+1F39", "U+1F3A", "U+1F3B", "U+1F3C", "U+1F3D", "U+1F3E",
      "U+1F3F", "U+1F48", "U+1F49", "U+1F4A", "U+1F4B", "U+1F4C", "U+1F4D",
      "U+1F59", "U+1F5B", "U+1F5D", "U+1F5F", "U+1F68", "U+1F69", "U+1F6A",
      "U+1F6B", "U+1F6C", "U+1F6D", "U+1F6E", "U+1F6F", "ᾈ", "ᾉ", "ᾊ", "ᾋ",
      "ᾌ", "ᾍ", "ᾎ", "ᾏ", "ᾘ", "ᾙ", "ᾚ", "ᾛ", "ᾜ", "ᾝ", "ᾞ", "ᾟ", "ᾨ", "ᾩ",
      "ᾪ", "ᾫ", "ᾬ", "ᾭ", "ᾮ", "ᾯ", "Ᾰ", "Ᾱ", "Ὰ", "Ά", "ᾼ", "Ὲ", "Έ", "Ὴ",
      "Ή", "ῌ", "Ῐ", "Ῑ", "Ὶ", "Ί", "Ῠ", "Ῡ", "Ὺ", "Ύ", "Ῥ", "Ὸ", "Ό", "Ὼ",
      "Ώ", "ῼ", "U+2126", "U+212A", "U+212B", "U+2132", "U+2160", "U+2161",
      "U+2162", "U+2163", "U+2164", "U+2165", "U+2166", "U+2167", "U+2168",
      "U+2169", "U+216A", "U+216B", "U+216C", "U+216D", "U+216E", "U+216F",
      "Ↄ", "Ⓐ", "Ⓑ", "Ⓒ", "Ⓓ", "Ⓔ", "Ⓕ", "Ⓖ", "Ⓗ", "Ⓘ", "Ⓙ", "Ⓚ", "Ⓛ", "Ⓜ",
      "Ⓝ", "Ⓞ", "Ⓟ", "Ⓠ", "Ⓡ", "Ⓢ", "Ⓣ", "Ⓤ", "Ⓥ", "Ⓦ", "Ⓧ", "Ⓨ", "Ⓩ",
      "U+2C00", "U+2C01", "U+2C02", "U+2C03", "U+2C04", "U+2C05", "U+2C06",
      "U+2C07", "U+2C08", "U+2C09", "U+2C0A", "U+2C0B", "U+2C0C", "U+2C0D",
      "U+2C0E", "U+2C0F", "U+2C10", "U+2C11", "U+2C12", "U+2C13", "U+2C14",
      "U+2C15", "U+2C16", "U+2C17", "U+2C18", "U+2C19", "U+2C1A", "U+2C1B",
      "U+2C1C", "U+2C1D", "U+2C1E", "U+2C1F", "U+2C20", "U+2C21", "U+2C22",
      "U+2C23", "U+2C24", "U+2C25", "U+2C26", "U+2C27", "U+2C28", "U+2C29",
      "U+2C2A", "U+2C2B", "U+2C2C", "U+2C2D", "U+2C2E", "U+2C2F", "U+2C60",
      "U+2C62", "U+2C63", "U+2C64", "U+2C67", "U+2C69", "U+2C6B", "U+2C6D",
      "U+2C6E", "U+2C6F", "U+2C70", "U+2C72", "U+2C75", "U+2C7E", "U+2C7F",
      "Ⲁ", "Ⲃ", "Ⲅ", "Ⲇ", "Ⲉ", "Ⲋ", "Ⲍ", "Ⲏ", "Ⲑ", "Ⲓ", "Ⲕ", "Ⲗ", "Ⲙ", "Ⲛ",
      "Ⲝ", "Ⲟ", "Ⲡ", "Ⲣ", "Ⲥ", "Ⲧ", "Ⲩ", "Ⲫ", "Ⲭ", "Ⲯ", "Ⲱ", "Ⲳ", "Ⲵ", "Ⲷ",
      "Ⲹ", "Ⲻ", "Ⲽ", "Ⲿ", "Ⳁ", "Ⳃ", "Ⳅ", "Ⳇ", "Ⳉ", "Ⳋ", "Ⳍ", "Ⳏ", "Ⳑ", "Ⳓ",
      "Ⳕ", "Ⳗ", "Ⳙ", "Ⳛ", "Ⳝ", "Ⳟ", "Ⳡ", "Ⳣ", "Ⳬ", "Ⳮ", "Ⳳ", "U+A640",
      "U+A642", "U+A644", "U+A646", "U+A648", "U+A64A", "U+A64C", "U+A64E",
      "U+A650", "U+A652", "U+A654", "U+A656", "U+A658", "U+A65A", "U+A65C",
      "U+A65E", "U+A660", "U+A662", "U+A664", "U+A666", "U+A668", "U+A66A",
      "U+A66C", "Ꚁ", "Ꚃ", "Ꚅ", "Ꚇ", "Ꚉ", "Ꚋ", "Ꚍ", "Ꚏ", "Ꚑ", "Ꚓ", "Ꚕ", "Ꚗ",
      "Ꚙ", "Ꚛ", "U+A722", "U+A724", "U+A726", "U+A728", "U+A72A", "U+A72C",
      "U+A72E", "U+A732", "U+A734", "U+A736", "U+A738", "U+A73A", "U+A73C",
      "U+A73E", "U+A740", "U+A742", "U+A744", "U+A746", "U+A748", "U+A74A",
      "U+A74C", "U+A74E", "U+A750", "U+A752", "U+A754", "U+A756", "U+A758",
      "U+A75A", "U+A75C", "U+A75E", "U+A760", "U+A762", "U+A764", "U+A766",
      "U+A768", "U+A76A", "U+A76C", "U+A76E", "U+A779", "U+A77B", "U+A77D",
      "U+A77E", "Ꞁ", "Ꞃ", "Ꞅ", "Ꞇ", "Ꞌ", "Ɥ", "Ꞑ", "Ꞓ", "Ꞗ", "Ꞙ", "Ꞛ", "Ꞝ",
      "Ꞟ", "Ꞡ", "Ꞣ", "Ꞥ", "Ꞧ", "Ꞩ", "Ɦ", "Ɜ", "Ɡ", "Ɬ", "Ɪ", "Ʞ", "Ʇ", "Ʝ",
      "Ꭓ", "Ꞵ", "Ꞷ", "Ꞹ", "Ꞻ", "Ꞽ", "Ꞿ", "Ꟁ", "Ꟃ", "Ꞔ", "Ʂ", "Ᶎ", "Ꟈ", "Ꟊ",
      "Ɤ", "Ꟍ", "꟎", "Ꟑ", "꟒", "꟔", "Ꟗ", "Ꟙ", "Ꟛ", "Ƛ", "Ꟶ", "U+FF21",
      "U+FF22", "U+FF23", "U+FF24", "U+FF25", "U+FF26", "U+FF27", "U+FF28",
      "U+FF29", "U+FF2A", "U+FF2B", "U+FF2C", "U+FF2D", "U+FF2E", "U+FF2F",
      "U+FF30", "U+FF31", "U+FF32", "U+FF33", "U+FF34", "U+FF35", "U+FF36",
      "U+FF37", "U+FF38", "U+FF39", "U+FF3A", "U+10400", "U+10401", "U+10402",
      "U+10403", "U+10404", "U+10405", "U+10406", "U+10407", "U+10408",
      "U+10409", "U+1040A", "U+1040B", "U+1040C", "U+1040D", "U+1040E",
      "U+1040F", "U+10410", "U+10411", "U+10412", "U+10413", "U+10414",
      "U+10415", "U+10416", "U+10417", "U+10418", "U+10419", "U+1041A",
      "U+1041B", "U+1041C", "U+1041D", "U+1041E", "U+1041F", "U+10420",
      "U+10421", "U+10422", "U+10423", "U+10424", "U+10425", "U+10426",
      "U+10427", "U+104B0", "U+104B1", "U+104B2", "U+104B3", "U+104B4",
      "U+104B5", "U+104B6", "U+104B7", "U+104B8", "U+104B9", "U+104BA",
      "U+104BB", "U+104BC", "U+104BD", "U+104BE", "U+104BF", "U+104C0",
      "U+104C1", "U+104C2", "U+104C3", "U+104C4", "U+104C5", "U+104C6",
      "U+104C7", "U+104C8", "U+104C9", "U+104CA", "U+104CB", "U+104CC",
      "U+104CD", "U+104CE", "U+104CF", "U+104D0", "U+104D1", "U+104D2",
      "U+104D3", "U+10570", "U+10571", "U+10572", "U+10573", "U+10574",
      "U+10575", "U+10576", "U+10577", "U+10578", "U+10579", "U+1057A",
      "U+1057C", "U+1057D", "U+1057E", "U+1057F", "U+10580", "U+10581",
      "U+10582", "U+10583", "U+10584", "U+10585", "U+10586", "U+10587",
      "U+10588", "U+10589", "U+1058A", "U+1058C", "U+1058D", "U+1058E",
      "U+1058F", "U+10590", "U+10591", "U+10592", "U+10594", "U+10595",
      "U+10C80", "U+10C81", "U+10C82", "U+10C83", "U+10C84", "U+10C85",
      "U+10C86", "U+10C87", "U+10C88", "U+10C89", "U+10C8A", "U+10C8B",
      "U+10C8C", "U+10C8D", "U+10C8E", "U+10C8F", "U+10C90", "U+10C91",
      "U+10C92", "U+10C93", "U+10C94", "U+10C95", "U+10C96", "U+10C97",
      "U+10C98", "U+10C99", "U+10C9A", "U+10C9B", "U+10C9C", "U+10C9D",
      "U+10C9E", "U+10C9F", "U+10CA0", "U+10CA1", "U+10CA2", "U+10CA3",
      "U+10CA4", "U+10CA5", "U+10CA6", "U+10CA7", "U+10CA8", "U+10CA9",
      "U+10CAA", "U+10CAB", "U+10CAC", "U+10CAD", "U+10CAE", "U+10CAF",
      "U+10CB0", "U+10CB1", "U+10CB2", "U+10D50", "U+10D51", "U+10D52",
      "U+10D53", "U+10D54", "U+10D55", "U+10D56", "U+10D57", "U+10D58",
      "U+10D59", "U+10D5A", "U+10D5B", "U+10D5C", "U+10D5D", "U+10D5E",
      "U+10D5F", "U+10D60", "U+10D61", "U+10D62", "U+10D63", "U+10D64",
      "U+10D65", "U+118A0", "U+118A1", "U+118A2", "U+118A3", "U+118A4",
      "U+118A5", "U+118A6", "U+118A7", "U+118A8", "U+118A9", "U+118AA",
      "U+118AB", "U+118AC", "U+118AD", "U+118AE", "U+118AF", "U+118B0",
      "U+118B1", "U+118B2", "U+118B3", "U+118B4", "U+118B5", "U+118B6",
      "U+118B7", "U+118B8", "U+118B9", "U+118BA", "U+118BB", "U+118BC",
      "U+118BD", "U+118BE", "U+118BF", "U+16E40", "U+16E41", "U+16E42",
      "U+16E43", "U+16E44", "U+16E45", "U+16E46", "U+16E47", "U+16E48",
      "U+16E49", "U+16E4A", "U+16E4B", "U+16E4C", "U+16E4D", "U+16E4E",
      "U+16E4F", "U+16E50", "U+16E51", "U+16E52", "U+16E53", "U+16E54",
      "U+16E55", "U+16E56", "U+16E57", "U+16E58", "U+16E59", "U+16E5A",
      "U+16E5B", "U+16E5C", "U+16E5D", "U+16E5E", "U+16E5F", "U+16EA0",
      "U+16EA1", "U+16EA2", "U+16EA3", "U+16EA4", "U+16EA5", "U+16EA6",
      "U+16EA7", "U+16EA8", "U+16EA9", "U+16EAA", "U+16EAB", "U+16EAC",
      "U+16EAD", "U+16EAE", "U+16EAF", "U+16EB0", "U+16EB1", "U+16EB2",
      "U+16EB3", "U+16EB4", "U+16EB5", "U+16EB6", "U+16EB7", "U+16EB8",
      "U+1E900", "U+1E901", "U+1E902", "U+1E903", "U+1E904", "U+1E905",
      "U+1E906", "U+1E907", "U+1E908", "U+1E909", "U+1E90A", "U+1E90B",
      "U+1E90C", "U+1E90D", "U+1E90E", "U+1E90F", "U+1E910", "U+1E911",
      "U+1E912", "U+1E913", "U+1E914", "U+1E915", "U+1E916", "U+1E917",
      "U+1E918", "U+1E919", "U+1E91A", "U+1E91B", "U+1E91C", "U+1E91D",
      "U+1E91E", "U+1E91F", "U+1E920", "U+1E921">>

LowerCase ==
    <<"a", "b", "c", "d", "e", "f", "g", "h", "i", "j", "k", "l", "m", "n",
      "o", "p", "q", "r", "s", "t", "u", "v", "w", "x", "y", "z", "à", "á",
      "â", "ã", "ä", "å", "æ", "ç", "è", "é", "ê", "ë", "ì", "í", "î", "ï",
      "ð", "ñ", "ò", "ó", "ô", "õ", "ö", "ø", "ù", "ú", "û", "ü", "ý", "þ",
      "U+0101", "U+0103", "U+0105", "U+0107", "U+0109", "U+010B", "U+010D",
      "U+010F", "U+0111", "U+0113", "U+0115", "U+0117", "U+0119", "U+011B",
      "U+011D", "U+011F", "U+0121", "U+0123", "U+0125", "U+0127", "U+0129",
      "U+012B", "U+012D", "U+012F", "U+0133", "U+0135", "U+0137", "U+013A",
      "U+013C", "U+013E", "U+0140", "U+0142", "U+0144", "U+0146", "U+0148",
      "U+014B", "U+014D", "U+014F", "U+0151", "U+0153", "U+0155", "U+0157",
      "U+0159", "U+015B", "U+015D", "U+015F", "U+0161", "U+0163", "U+0165",
      "U+0167", "U+0169", "U+016B", "U+016D", "U+016F", "U+0171", "U+0173",
      "U+0175", "U+0177", "ÿ", "U+017A", "U+017C", "U+017E", "U+0253", "ƃ",
      "ƅ", "U+0254", "ƈ", "U+0256", "U+0257", "ƌ", "ǝ", "U+0259", "U+025B",
      "ƒ", "U+0260", "U+0263", "U+0269", "U+0268", "ƙ", "U+026F", "U+0272",
      "U+0275", "ơ", "ƣ", "ƥ", "ʀ", "ƨ", "ʃ", "ƭ", "ʈ", "ư", "ʊ", "ʋ", "ƴ",
      "ƶ", "ʒ", "ƹ", "ƽ", "ǆ", "ǆ", "ǉ", "ǉ", "ǌ", "ǌ", "ǎ", "ǐ", "ǒ", "ǔ",
      "ǖ", "ǘ", "ǚ", "ǜ", "ǟ", "ǡ", "ǣ", "ǥ", "ǧ", "ǩ", "ǫ", "ǭ", "ǯ", "ǳ",
      "ǳ", "ǵ", "ƕ", "ƿ", "ǹ", "ǻ", "ǽ", "ǿ", "U+0201", "U+0203", "U+0205",
      "U+0207", "U+0209", "U+020B", "U+020D", "U+020F", "U+0211", "U+0213",
      "U+0215", "U+0217", "U+0219", "U+021B", "U+021D", "U+021F", "ƞ",
      "U+0223", "U+0225", "U+0227", "U+0229", "U+022B", "U+022D", "U+022F",
      "U+0231", "U+0233", "U+2C65", "U+023C", "ƚ", "U+2C66", "U+0242", "ƀ",
      "ʉ", "ʌ", "U+0247", "U+0249", "U+024B", "U+024D", "U+024F", "U+0371",
      "U+0373", "U+0377", "ϳ", "ά", "έ", "ή", "ί", "ό", "ύ", "ώ", "α", "β",
      "γ", "δ", "ε", "ζ", "η", "θ", "ι", "κ", "λ", "μ", "ν", "ξ", "ο", "π",
      "ρ", "σ", "τ", "υ", "φ", "χ", "ψ", "ω", "ϊ", "ϋ", "ϗ", "ϙ", "ϛ", "ϝ",
      "ϟ", "ϡ", "ϣ", "ϥ", "ϧ", "ϩ", "ϫ", "ϭ", "ϯ", "θ", "ϸ", "ϲ", "ϻ",
      "U+037B", "U+037C", "U+037D", "U+0450", "U+0451", "U+0452", "U+0453",
      "U+0454", "U+0455", "U+0456", "U+0457", "U+0458", "U+0459", "U+045A",
      "U+045B", "U+045C", "U+045D", "U+045E", "U+045F", "U+0430", "U+0431",
      "U+0432", "U+0433", "U+0434", "U+0435", "U+0436", "U+0437", "U+0438",
      "U+0439", "U+043A", "U+043B", "U+043C", "U+043D", "U+043E", "U+043F",
      "U+0440", "U+0441", "U+0442", "U+0443", "U+0444", "U+0445", "U+0446",
      "U+0447", "U+0448", "U+0449", "U+044A", "U+044B", "U+044C", "U+044D",
      "U+044E", "U+044F", "U+0461", "U+0463", "U+0465", "U+0467", "U+0469",
      "U+046B", "U+046D", "U+046F", "U+0471", "U+0473", "U+0475", "U+0477",
      "U+0479", "U+047B", "U+047D", "U+047F", "ҁ", "ҋ", "ҍ", "ҏ", "ґ", "ғ",
      "ҕ", "җ", "ҙ", "қ", "ҝ", "ҟ", "ҡ", "ң", "ҥ", "ҧ", "ҩ", "ҫ", "ҭ", "ү",
      "ұ", "ҳ", "ҵ", "ҷ", "ҹ", "һ", "ҽ", "ҿ", "ӏ", "ӂ", "ӄ", "ӆ", "ӈ", "ӊ",
      "ӌ", "ӎ", "ӑ", "ӓ", "ӕ", "ӗ", "ә", "ӛ", "ӝ", "ӟ", "ӡ", "ӣ", "ӥ", "ӧ",
      "ө", "ӫ", "ӭ", "ӯ", "ӱ", "ӳ", "ӵ", "ӷ", "ӹ", "ӻ", "ӽ", "ӿ", "U+0501",
      "U+0503", "U+0505", "U+0507", "U+0509", "U+050B", "U+050D", "U+050F",
      "U+0511", "U+0513", "U+0515", "U+0517", "U+0519", "U+051B", "U+051D",
      "U+051F", "U+0521", "U+0523", "U+0525", "U+0527", "U+0529", "U+052B",
      "U+052D", "U+052F", "U+0561", "U+0562", "U+0563", "U+0564", "U+0565",
      "U+0566", "U+0567", "U+0568", "U+0569", "U+056A", "U+056B", "U+056C",
      "U+056D", "U+056E", "U+056F", "U+0570", "U+0571", "U+0572", "U+0573",
      "U+0574", "U+0575", "U+0576", "U+0577", "U+0578", "U+0579", "U+057A",
      "U+057B", "U+057C", "U+057D", "U+057E", "U+057F", "ր", "ց", "ւ", "փ",
      "ք", "օ", "ֆ", "U+2D00", "U+2D01", "U+2D02", "U+2D03", "U+2D04",
      "U+2D05", "U+2D06", "U+2D07", "U+2D08", "U+2D09", "U+2D0A", "U+2D0B",
      "U+2D0C", "U+2D0D", "U+2D0E", "U+2D0F", "U+2D10", "U+2D11", "U+2D12",
      "U+2D13", "U+2D14", "U+2D15", "U+2D16", "U+2D17", "U+2D18", "U+2D19",
      "U+2D1A", "U+2D1B", "U+2D1C", "U+2D1D", "U+2D1E", "U+2D1F", "U+2D20",
      "U+2D21", "U+2D22", "U+2D23", "U+2D24", "U+2D25", "U+2D27", "U+2D2D",
      "U+AB70", "U+AB71", "U+AB72", "U+AB73", "U+AB74", "U+AB75", "U+AB76",
      "U+AB77", "U+AB78", "U+AB79", "U+AB7A", "U+AB7B", "U+AB7C", "U+AB7D",
      "U+AB7E", "U+AB7F", "ꮀ", "ꮁ", "ꮂ", "ꮃ", "ꮄ", "ꮅ", "ꮆ", "ꮇ", "ꮈ", "ꮉ",
      "ꮊ", "ꮋ", "ꮌ", "ꮍ", "ꮎ", "ꮏ", "ꮐ", "ꮑ", "ꮒ", "ꮓ", "ꮔ", "ꮕ", "ꮖ", "ꮗ",
      "ꮘ", "ꮙ", "ꮚ", "ꮛ", "ꮜ", "ꮝ", "ꮞ", "ꮟ", "ꮠ", "ꮡ", "ꮢ", "ꮣ", "ꮤ", "ꮥ",
      "ꮦ", "ꮧ", "ꮨ", "ꮩ", "ꮪ", "ꮫ", "ꮬ", "ꮭ", "ꮮ", "ꮯ", "ꮰ", "ꮱ", "ꮲ", "ꮳ",
      "ꮴ", "ꮵ", "ꮶ", "ꮷ", "ꮸ", "ꮹ", "ꮺ", "ꮻ", "ꮼ", "ꮽ", "ꮾ", "ꮿ", "ᏸ", "ᏹ",
      "ᏺ", "ᏻ", "ᏼ", "ᏽ", "ᲊ", "ა", "ბ", "გ", "დ", "ე", "ვ", "ზ", "თ", "ი",
      "კ", "ლ", "მ", "ნ", "ო", "პ", "ჟ", "რ", "ს", "ტ", "უ", "ფ", "ქ", "ღ",
      "ყ", "შ", "ჩ", "ც", "ძ", "წ", "ჭ", "ხ", "ჯ", "ჰ", "ჱ", "ჲ", "ჳ", "ჴ",
      "ჵ", "ჶ", "ჷ", "ჸ", "ჹ", "ჺ", "ჽ", "ჾ", "ჿ", "U+1E01", "U+1E03",
      "U+1E05", "U+1E07", "U+1E09", "U+1E0B", "U+1E0D", "U+1E0F", "U+1E11",
      "U+1E13", "U+1E15", "U+1E17", "U+1E19", "U+1E1B", "U+1E1D", "U+1E1F",
      "U+1E21", "U+1E23", "U+1E25", "U+1E27", "U+1E29", "U+1E2B", "U+1E2D",
      "U+1E2F", "U+1E31", "U+1E33", "U+1E35", "U+1E37", "U+1E39", "U+1E3B",
      "U+1E3D", "U+1E3F", "U+1E41", "U+1E43", "U+1E45", "U+1E47", "U+1E49",
      "U+1E4B", "U+1E4D", "U+1E4F", "U+1E51", "U+1E53", "U+1E55", "U+1E57",
      "U+1E59", "U+1E5B", "U+1E5D", "U+1E5F", "U+1E61", "U+1E63", "U+1E65",
      "U+1E67", "U+1E69", "U+1E6B", "U+1E6D", "U+1E6F", "U+1E71", "U+1E73",
      "U+1E75", "U+1E77", "U+1E79", "U+1E7B", "U+1E7D", "U+1E7F", "ẁ", "ẃ",
      "ẅ", "ẇ", "ẉ", "ẋ", "ẍ", "ẏ", "ẑ", "ẓ", "ẕ", "ß", "ạ", "ả", "ấ", "ầ",
      "ẩ", "ẫ", "ậ", "ắ", "ằ", "ẳ", "ẵ", "ặ", "ẹ", "ẻ", "ẽ", "ế", "ề", "ể",
      "ễ", "ệ", "ỉ", "ị", "ọ", "ỏ", "ố", "ồ", "ổ", "ỗ", "ộ", "ớ", "ờ", "ở",
      "ỡ", "ợ", "ụ", "ủ", "ứ", "ừ", "ử", "ữ", "ự", "ỳ", "ỵ", "ỷ", "ỹ", "ỻ",
      "ỽ", "ỿ", "U+1F00", "U+1F01", "U+1F02", "U+1F03", "U+1F04", "U+1F05",
      "U+1F06", "U+1F07", "U+1F10", "U+1F11", "U+1F12", "U+1F13", "U+1F14",
      "U+1F15", "U+1F20", "U+1F21", "U+1F22", "U+1F23", "U+1F24", "U+1F25",
      "U+1F26", "U+1F27", "U+1F30", "U+1F31", "U+1F32", "U+1F33", "U+1F34",
      "U+1F35", "U+1F36", "U+1F37", "U+1F40", "U+1F41", "U+1F42", "U+1F43",
      "U+1F44", "U+1F45", "U+1F51", "U+1F53", "U+1F55", "U+1F57", "U+1F60",
      "U+1F61", "U+1F62", "U+1F63", "U+1F64", "U+1F65", "U+1F66", "U+1F67",
      "ᾀ", "ᾁ", "ᾂ", "ᾃ", "ᾄ", "ᾅ", "ᾆ", "ᾇ", "ᾐ", "ᾑ", "ᾒ", "ᾓ", "ᾔ", "ᾕ",
      "ᾖ", "ᾗ", "ᾠ", "ᾡ", "ᾢ", "ᾣ", "ᾤ", "ᾥ", "ᾦ", "ᾧ", "ᾰ", "ᾱ", "U+1F70",
      "U+1F71", "ᾳ", "U+1F72", "U+1F73", "U+1F74", "U+1F75", "ῃ", "ῐ", "ῑ",
      "U+1F76", "U+1F77", "ῠ", "ῡ", "U+1F7A", "U+1F7B", "ῥ", "U+1F78",
      "U+1F79", "U+1F7C", "U+1F7D", "ῳ", "ω", "k", "å", "U+214E", "U+2170",
      "U+2171", "U+2172", "U+2173", "U+2174", "U+2175", "U+2176", "U+2177",
      "U+2178", "U+2179", "U+217A", "U+217B", "U+217C", "U+217D", "U+217E",
      "U+217F", "ↄ", "ⓐ", "ⓑ", "ⓒ", "ⓓ", "ⓔ", "ⓕ", "ⓖ", "ⓗ", "ⓘ", "ⓙ", "ⓚ",
      "ⓛ", "ⓜ", "ⓝ", "ⓞ", "ⓟ", "ⓠ", "ⓡ", "ⓢ", "ⓣ", "ⓤ", "ⓥ", "ⓦ", "ⓧ", "ⓨ",
      "ⓩ", "U+2C30", "U+2C31", "U+2C32", "U+2C33", "U+2C34", "U+2C35",
      "U+2C36", "U+2C37", "U+2C38", "U+2C39", "U+2C3A", "U+2C3B", "U+2C3C",
      "U+2C3D", "U+2C3E", "U+2C3F", "U+2C40", "U+2C41", "U+2C42", "U+2C43",
      "U+2C44", "U+2C45", "U+2C46", "U+2C47", "U+2C48", "U+2C49", "U+2C4A",
      "U+2C4B", "U+2C4C", "U+2C4D", "U+2C4E", "U+2C4F", "U+2C50", "U+2C51",
      "U+2C52", "U+2C53", "U+2C54", "U+2C55", "U+2C56", "U+2C57", "U+2C58",
      "U+2C59", "U+2C5A", "U+2C5B", "U+2C5C", "U+2C5D", "U+2C5E", "U+2C5F",
      "U+2C61", "U+026B", "U+1D7D", "U+027D", "U+2C68", "U+2C6A", "U+2C6C",
      "U+0251", "U+0271", "U+0250", "U+0252", "U+2C73", "U+2C76", "U+023F",
      "U+0240", "ⲁ", "ⲃ", "ⲅ", "ⲇ", "ⲉ", "ⲋ", "ⲍ", "ⲏ", "ⲑ", "ⲓ", "ⲕ", "ⲗ",
      "ⲙ", "ⲛ", "ⲝ", "ⲟ", "ⲡ", "ⲣ", "ⲥ", "ⲧ", "ⲩ", "ⲫ", "ⲭ", "ⲯ", "ⲱ", "ⲳ",
      "ⲵ", "ⲷ", "ⲹ", "ⲻ", "ⲽ", "ⲿ", "ⳁ", "ⳃ", "ⳅ", "ⳇ", "ⳉ", "ⳋ", "ⳍ", "ⳏ",
      "ⳑ", "ⳓ", "ⳕ", "ⳗ", "ⳙ", "ⳛ", "ⳝ", "ⳟ", "ⳡ", "ⳣ", "ⳬ", "ⳮ", "ⳳ",
      "U+A641", "U+A643", "U+A645", "U+A647", "U+A649", "U+A64B", "U+A64D",
      "U+A64F", "U+A651", "U+A653", "U+A655", "U+A657", "U+A659", "U+A65B",
      "U+A65D", "U+A65F", "U+A661", "U+A663", "U+A665", "U+A667", "U+A669",
      "U+A66B", "U+A66D", "ꚁ", "ꚃ", "ꚅ", "ꚇ", "ꚉ", "ꚋ", "ꚍ", "ꚏ", "ꚑ", "ꚓ",
      "ꚕ", "ꚗ", "ꚙ", "ꚛ", "U+A723", "U+A725", "U+A727", "U+A729", "U+A72B",
      "U+A72D", "U+A72F", "U+A733", "U+A735", "U+A737", "U+A739", "U+A73B",
      "U+A73D", "U+A73F", "U+A741", "U+A743", "U+A745", "U+A747", "U+A749",
      "U+A74B", "U+A74D", "U+A74F", "U+A751", "U+A753", "U+A755", "U+A757",
      "U+A759", "U+A75B", "U+A75D", "U+A75F", "U+A761", "U+A763", "U+A765",
      "U+A767", "U+A769", "U+A76B", "U+A76D", "U+A76F", "U+A77A", "U+A77C",
      "U+1D79", "U+A77F", "ꞁ", "ꞃ", "ꞅ", "ꞇ", "ꞌ", "U+0265", "ꞑ", "ꞓ", "ꞗ",
      "ꞙ", "ꞛ", "ꞝ", "ꞟ", "ꞡ", "ꞣ", "ꞥ", "ꞧ", "ꞩ", "U+0266", "U+025C",
      "U+0261", "U+026C", "U+026A", "ʞ", "ʇ", "ʝ", "U+AB53", "ꞵ", "ꞷ", "ꞹ",
      "ꞻ", "ꞽ", "ꞿ", "ꟁ", "ꟃ", "ꞔ", "ʂ", "ᶎ", "ꟈ", "ꟊ", "U+0264", "ꟍ", "꟏",
      "ꟑ", "ꟓ", "ꟕ", "ꟗ", "ꟙ", "ꟛ", "ƛ", "ꟶ", "U+FF41", "U+FF42", "U+FF43",
      "U+FF44", "U+FF45", "U+FF46", "U+FF47", "U+FF48", "U+FF49", "U+FF4A",
      "U+FF4B", "U+FF4C", "U+FF4D", "U+FF4E", "U+FF4F", "U+FF50", "U+FF51",
      "U+FF52", "U+FF53", "U+FF54", "U+FF55", "U+FF56", "U+FF57", "U+FF58",
      "U+FF59", "U+FF5A", "U+10428", "U+10429", "U+1042A", "U+1042B",
      "U+1042C", "U+1042D", "U+1042E", "U+1042F", "U+10430", "U+10431",
      "U+10432", "U+10433", "U+10434", "U+10435", "U+10436", "U+10437",
      "U+10438", "U+10439", "U+1043A", "U+1043B", "U+1043C", "U+1043D",
      "U+1043E", "U+1043F", "U+10440", "U+10441", "U+10442", "U+10443",
      "U+10444", "U+10445", "U+10446", "U+10447", "U+10448", "U+10449",
      "U+1044A", "U+1044B", "U+1044C", "U+1044D", "U+1044E", "U+1044F",
      "U+104D8", "U+104D9", "U+104DA", "U+104DB", "U+104DC", "U+104DD",
      "U+104DE", "U+104DF", "U+104E0", "U+104E1", "U+104E2", "U+104E3",
      "U+104E4", "U+104E5", "U+104E6", "U+104E7", "U+104E8", "U+104E9",
      "U+104EA", "U+104EB", "U+104EC", "U+104ED", "U+104EE", "U+104EF",
      "U+104F0", "U+104F1", "U+104F2", "U+104F3", "U+104F4", "U+104F5",
      "U+104F6", "U+104F7", "U+104F8", "U+104F9", "U+104FA", "U+104FB",
      "U+10597", "U+10598", "U+10599", "U+1059A", "U+1059B", "U+1059C",
      "U+1059D", "U+1059E", "U+1059F", "U+105A0", "U+105A1", "U+105A3",
      "U+105A4", "U+105A5", "U+105A6", "U+105A7", "U+105A8", "U+105A9",
      "U+105AA", "U+105AB", "U+105AC", "U+105AD", "U+105AE", "U+105AF",
      "U+105B0", "U+105B1", "U+105B3", "U+105B4", "U+105B5", "U+105B6",
      "U+105B7", "U+105B8", "U+105B9", "U+105BB", "U+105BC", "U+10CC0",
      "U+10CC1", "U+10CC2", "U+10CC3", "U+10CC4", "U+10CC5", "U+10CC6",
      "U+10CC7", "U+10CC8", "U+10CC9", "U+10CCA", "U+10CCB", "U+10CCC",
      "U+10CCD", "U+10CCE", "U+10CCF", "U+10CD0", "U+10CD1", "U+10CD2",
      "U+10CD3", "U+10CD4", "U+10CD5", "U+10CD6", "U+10CD7", "U+10CD8",
      "U+10CD9", "U+10CDA", "U+10CDB", "U+10CDC", "U+10CDD", "U+10CDE",
      "U+10CDF", "U+10CE0", "U+10CE1", "U+10CE2", "U+10CE3", "U+10CE4",
      "U+10CE5", "U+10CE6", "U+10CE7", "U+10CE8", "U+10CE9", "U+10CEA",
      "U+10CEB", "U+10CEC", "U+10CED", "U+10CEE", "U+10CEF", "U+10CF0",
      "U+10CF1", "U+10CF2", "U+10D70", "U+10D71", "U+10D72", "U+10D73",
      "U+10D74", "U+10D75", "U+10D76", "U+10D77", "U+10D78", "U+10D79",
      "U+10D7A", "U+10D7B", "U+10D7C", "U+10D7D", "U+10D7E", "U+10D7F",
      "U+10D80", "U+10D81", "U+10D82", "U+10D83", "U+10D84", "U+10D85",
      "U+118C0", "U+118C1", "U+118C2", "U+118C3", "U+118C4", "U+118C5",
      "U+118C6", "U+118C7", "U+118C8", "U+118C9", "U+118CA", "U+118CB",
      "U+118CC", "U+118CD", "U+118CE", "U+118CF", "U+118D0", "U+118D1",
      "U+118D2", "U+118D3", "U+118D4", "U+118D5", "U+118D6", "U+118D7",
      "U+118D8", "U+118D9", "U+118DA", "U+118DB", "U+118DC", "U+118DD",
      "U+118DE", "U+118DF", "U+16E60", "U+16E61", "U+16E62", "U+16E63",
      "U+16E64", "U+16E65", "U+16E66", "U+16E67", "U+16E68", "U+16E69",
      "U+16E6A", "U+16E6B", "U+16E6C", "U+16E6D", "U+16E6E", "U+16E6F",
      "U+16E70", "U+16E71", "U+16E72", "U+16E73", "U+16E74", "U+16E75",
      "U+16E76", "U+16E77", "U+16E78", "U+16E79", "U+16E7A", "U+16E7B",
      "U+16E7C", "U+16E7D", "U+16E7E", "U+16E7F", "U+16EBB", "U+16EBC",
      "U+16EBD", "U+16EBE", "U+16EBF", "U+16EC0", "U+16EC1", "U+16EC2",
      "U+16EC3", "U+16EC4", "U+16EC5", "U+16EC6", "U+16EC7", "U+16EC8",
      "U+16EC9", "U+16ECA", "U+16ECB", "U+16ECC", "U+16ECD", "U+16ECE",
      "U+16ECF", "U+16ED0", "U+16ED1", "U+16ED2", "U+16ED3", "U+1E922",
      "U+1E923", "U+1E924", "U+1E925", "U+1E926", "U+1E927", "U+1E928",
      "U+1E929", "U+1E92A", "U+1E92B", "U+1E92C", "U+1E92D", "U+1E92E",
      "U+1E92F", "U+1E930", "U+1E931", "U+1E932", "U+1E933", "U+1E934",
      "U+1E935", "U+1E936", "U+1E937", "U+1E938", "U+1E939", "U+1E93A",
      "U+1E93B", "U+1E93C", "U+1E93D", "U+1E93E", "U+1E93F", "U+1E940",
      "U+1E941", "U+1E942", "U+1E943">>

\* The characters of the property Case_Ignorable.
Case_Ignorable ==
    {"'", ".", ":", "^", "U+0060", "¨", "­", "¯", "´", "·", "¸", "ʰ", "ʱ",
     "ʲ", "ʳ", "ʴ", "ʵ", "ʶ", "ʷ", "ʸ", "ʹ", "ʺ", "ʻ", "ʼ", "ʽ", "ʾ", "ʿ",
     "ˀ", "ˁ", "˂", "˃", "˄", "˅", "ˆ", "ˇ", "ˈ", "ˉ", "ˊ", "ˋ", "ˌ", "ˍ",
     "ˎ", "ˏ", "ː", "ˑ", "˒", "˓", "˔", "˕", "˖", "˗", "˘", "˙", "˚", "˛",
     "˜", "˝", "˞", "˟", "ˠ", "ˡ", "ˢ", "ˣ", "ˤ", "˥", "˦", "˧", "˨", "˩",
     "˪", "˫", "ˬ", "˭", "ˮ", "˯", "˰", "˱", "˲", "˳", "˴", "˵", "˶", "˷",
     "˸", "˹", "˺", "˻", "˼", "˽", "˾", "˿", "U+0300", "U+0301", "U+0302",
     "U+0303", "U+0304", "U+0305", "U+0306", "U+0307", "U+0308", "U+0309",
     "U+030A", "U+030B", "U+030C", "U+030D", "U+030E", "U+030F", "U+0310",
     "U+0311", "U+0312", "U+0313", "U+0314", "U+0315", "U+0316", "U+0317",
     "U+0318", "U+0319", "U+031A", "U+031B", "U+031C", "U+031D", "U+031E",
     "U+031F", "U+0320", "U+0321", "U+0322", "U+0323", "U+0324", "U+0325",
     "U+0326", "U+0327", "U+0328", "U+0329", "U+032A", "U+032B", "U+032C",
     "U+032D", "U+032E", "U+032F", "U+0330", "U+0331", "U+0332", "U+0333",
     "U+0334", "U+0335", "U+0336", "U+0337", "U+0338", "U+0339", "U+033A",
     "U+033B", "U+033C", "U+033D", "U+033E", "U+033F", "U+0340", "U+0341",
     "U+0342", "U+0343", "U+0344", "U+0345", "U+0346", "U+0347", "U+0348",
     "U+0349", "U+034A", "U+034B", "U+034C", "U+034D", "U+034E", "U+034F",
     "U+0350", "U+0351", "U+0352", "U+0353", "U+0354", "U+0355", "U+0356",
     "U+0357", "U+0358", "U+0359", "U+035A", "U+035B", "U+035C", "U+035D",
     "U+035E", "U+035F", "U+0360", "U+0361", "U+0362", "U+0363", "U+0364",
     "U+0365", "U+0366", "U+0367", "U+0368", "U+0369", "U+036A", "U+036B",
     "U+036C", "U+036D", "U+036E", "U+036F", "U+0374", "U+0375", "U+037A",
     "΄", "΅", "·", "҃", "҄", "҅", "҆", "҇", "҈", "҉", "U+0559", "U+055F",
     "֑", "֒", "֓", "֔", "֕", "֖", "֗", "֘", "֙", "֚", "֛", "֜", "֝", "֞",
     "֟", "֠", "֡", "֢", "֣", "֤", "֥", "֦", "֧", "֨", "֩", "֪", "֫", "֬",
     "֭", "֮", "֯", "ְ", "ֱ", "ֲ", "ֳ", "ִ", "ֵ", "ֶ", "ַ", "ָ", "ֹ", "ֺ",
     "ֻ", "ּ", "ֽ", "ֿ", "ׁ", "ׂ", "ׄ", "ׅ", "ׇ", "״", "U+0600", "U+0601",
     "U+0602", "U+0603", "U+0604", "U+0605", "U+0610", "U+0611", "U+0612",
     "U+0613", "U+0614", "U+0615", "U+0616", "U+0617", "U+0618", "U+0619",
     "U+061A", "U+061C", "U+0640", "U+064B", "U+064C", "U+064D", "U+064E",
     "U+064F", "U+0650", "U+0651", "U+0652", "U+0653", "U+0654", "U+0655",
     "U+0656", "U+0657", "U+0658", "U+0659", "U+065A", "U+065B", "U+065C",
     "U+065D", "U+065E", "U+065F", "U+0670", "ۖ", "ۗ", "ۘ", "ۙ", "ۚ", "ۛ",
     "ۜ", "۝", "۟", "۠", "ۡ", "ۢ", "ۣ", "ۤ", "ۥ", "ۦ", "ۧ", "ۨ", "۪", "۫",
     "۬", "ۭ", "U+070F", "U+0711", "U+0730", "U+0731", "U+0732", "U+0733",
     "U+0734", "U+0735", "U+0736", "U+0737", "U+0738", "U+0739", "U+073A",
     "U+073B", "U+073C", "U+073D", "U+073E", "U+073F", "U+0740", "U+0741",
     "U+0742", "U+0743", "U+0744", "U+0745", "U+0746", "U+0747", "U+0748",
     "U+0749", "U+074A", "ަ", "ާ", "ި", "ީ", "ު", "ޫ", "ެ", "ޭ", "ޮ", "ޯ",
     "ް", "߫", "߬", "߭", "߮", "߯", "߰", "߱", "߲", "߳", "ߴ", "ߵ", "ߺ", "߽",
     "U+0816", "U+0817", "U+0818", "U+0819", "U+081A", "U+081B", "U+081C",
     "U+081D", "U+081E", "U+081F", "U+0820", "U+0821", "U+0822", "U+0823",
     "U+0824", "U+0825", "U+0826", "U+0827", "U+0828", "U+0829", "U+082A",
     "U+082B", "U+082C", "U+082D", "U+0859", "U+085A", "U+085B", "࢈", "࢐",
     "࢑", "ࢗ", "࢘", "࢙", "࢚", "࢛", "࢜", "࢝", "࢞", "࢟", "ࣉ", "࣊", "࣋", "࣌",
     "࣍", "࣎", "࣏", "࣐", "࣑", "࣒", "࣓", "ࣔ", "ࣕ", "ࣖ", "ࣗ", "ࣘ", "ࣙ", "ࣚ",
     "ࣛ", "ࣜ", "ࣝ", "ࣞ", "ࣟ", "࣠", "࣡", "࣢", "ࣣ", "ࣤ", "ࣥ", "ࣦ", "ࣧ", "ࣨ",
     "ࣩ", "࣪", "࣫", "࣬", "࣭", "࣮", "࣯", "ࣰ", "ࣱ", "ࣲ", "ࣳ", "ࣴ", "ࣵ", "ࣶ",
     "ࣷ", "ࣸ", "ࣹ", "ࣺ", "ࣻ", "ࣼ", "ࣽ", "ࣾ", "ࣿ", "U+0900", "U+0901",
     "U+0902", "U+093A", "U+093C", "U+0941", "U+0942", "U+0943", "U+0944",
     "U+0945", "U+0946", "U+0947", "U+0948", "U+094D", "U+0951", "U+0952",
     "U+0953", "U+0954", "U+0955", "U+0956", "U+0957", "U+0962", "U+0963",
     "U+0971", "ঁ", "়", "ু", "ূ", "ৃ", "ৄ", "্", "ৢ", "ৣ", "৾", "U+0A01",
     "U+0A02", "U+0A3C", "U+0A41", "U+0A42", "U+0A47", "U+0A48", "U+0A4B",
     "U+0A4C", "U+0A4D", "U+0A51", "U+0A70", "U+0A71", "U+0A75", "ઁ", "ં",
     "઼", "ુ", "ૂ", "ૃ", "ૄ", "ૅ", "ે", "ૈ", "્", "ૢ", "ૣ", "ૺ", "ૻ", "ૼ",
     "૽", "૾", "૿", "U+0B01", "U+0B3C", "U+0B3F", "U+0B41", "U+0B42",
     "U+0B43", "U+0B44", "U+0B4D", "U+0B55", "U+0B56", "U+0B62", "U+0B63",
     "ஂ", "ீ", "்", "U+0C00", "U+0C04", "U+0C3C", "U+0C3E", "U+0C3F",
     "U+0C40", "U+0C46", "U+0C47", "U+0C48", "U+0C4A", "U+0C4B", "U+0C4C",
     "U+0C4D", "U+0C55", "U+0C56", "U+0C62", "U+0C63", "ಁ", "಼", "ಿ", "ೆ",
     "ೌ", "್", "ೢ", "ೣ", "U+0D00", "U+0D01", "U+0D3B", "U+0D3C", "U+0D41",
     "U+0D42", "U+0D43", "U+0D44", "U+0D4D", "U+0D62", "U+0D63", "ඁ", "්",
     "ි", "ී", "ු", "ූ", "U+0E31", "U+0E34", "U+0E35", "U+0E36", "U+0E37",
     "U+0E38", "U+0E39", "U+0E3A", "U+0E46", "U+0E47", "U+0E48", "U+0E49",
     "U+0E4A", "U+0E4B", "U+0E4C", "U+0E4D", "U+0E4E", "ັ", "ິ", "ີ", "ຶ",
     "ື", "ຸ", "ູ", "຺", "ົ", "ຼ", "ໆ", "່", "້", "໊", "໋", "໌", "ໍ", "໎",
     "U+0F18", "U+0F19", "U+0F35", "U+0F37", "U+0F39", "U+0F71", "U+0F72",
     "U+0F73", "U+0F74", "U+0F75", "U+0F76", "U+0F77", "U+0F78", "U+0F79",
     "U+0F7A", "U+0F7B", "U+0F7C", "U+0F7D", "U+0F7E", "ྀ", "ཱྀ", "ྂ", "ྃ",
     "྄", "྆", "྇", "ྍ", "ྎ", "ྏ", "ྐ", "ྑ", "ྒ", "ྒྷ", "ྔ", "ྕ", "ྖ", "ྗ",
     "ྙ", "ྚ", "ྛ", "ྜ", "ྜྷ", "ྞ", "ྟ", "ྠ", "ྡ", "ྡྷ", "ྣ", "ྤ", "ྥ", "ྦ",
     "ྦྷ", "ྨ", "ྩ", "ྪ", "ྫ", "ྫྷ", "ྭ", "ྮ", "ྯ", "ྰ", "ྱ", "ྲ", "ླ", "ྴ",
     "ྵ", "ྶ", "ྷ", "ྸ", "ྐྵ", "ྺ", "ྻ", "ྼ", "࿆", "U+102D", "U+102E",
     "U+102F", "U+1030", "U+1032", "U+1033", "U+1034", "U+1035", "U+1036",
     "U+1037", "U+1039", "U+103A", "U+103D", "U+103E", "U+1058", "U+1059",
     "U+105E", "U+105F", "U+1060", "U+1071", "U+1072", "U+1073", "U+1074",
     "ႂ", "ႅ", "ႆ", "ႍ", "ႝ", "ჼ", "U+135D", "U+135E", "U+135F", "U+1712",
     "U+1713", "U+1714", "U+1732", "U+1733", "U+1752", "U+1753", "U+1772",
     "U+1773", "឴", "឵", "ិ", "ី", "ឹ", "ឺ", "ុ", "ូ", "ួ", "ំ", "៉", "៊",
     "់", "៌", "៍", "៎", "៏", "័", "៑", "្", "៓", "ៗ", "៝", "U+180B",
     "U+180C", "U+180D", "U+180E", "U+180F", "U+1843", "ᢅ", "ᢆ", "ᢩ",
     "U+1920", "U+1921", "U+1922", "U+1927", "U+1928", "U+1932", "U+1939",
     "U+193A", "U+193B", "U+1A17", "U+1A18", "U+1A1B", "U+1A56", "U+1A58",
     "U+1A59", "U+1A5A", "U+1A5B", "U+1A5C", "U+1A5D", "U+1A5E", "U+1A60",
     "U+1A62", "U+1A65", "U+1A66", "U+1A67", "U+1A68", "U+1A69", "U+1A6A",
     "U+1A6B", "U+1A6C", "U+1A73", "U+1A74", "U+1A75", "U+1A76", "U+1A77",
     "U+1A78", "U+1A79", "U+1A7A", "U+1A7B", "U+1A7C", "U+1A7F", "ᪧ", "᪰",
     "᪱", "᪲", "᪳", "᪴", "᪵", "᪶", "᪷", "᪸", "᪹", "᪺", "᪻", "᪼", "᪽", "᪾",
     "ᪿ", "ᫀ", "᫁", "᫂", "᫃", "᫄", "᫅", "᫆", "᫇", "᫈", "᫉", "᫊", "᫋", "ᫌ",
     "ᫍ", "ᫎ", "᫏", "᫐", "᫑", "᫒", "᫓", "᫔", "᫕", "᫖", "᫗", "᫘", "᫙", "᫚",
     "᫛", "᫜", "᫝", "᫠", "᫡", "᫢", "᫣", "᫤", "᫥", "᫦", "᫧", "᫨", "᫩", "᫪",
     "᫫", "U+1B00", "U+1B01", "U+1B02", "U+1B03", "U+1B34", "U+1B36",
     "U+1B37", "U+1B38", "U+1B39", "U+1B3A", "U+1B3C", "U+1B42", "U+1B6B",
     "U+1B6C", "U+1B6D", "U+1B6E", "U+1B6F", "U+1B70", "U+1B71", "U+1B72",
     "U+1B73", "ᮀ", "ᮁ", "ᮢ", "ᮣ", "ᮤ", "ᮥ", "ᮨ", "ᮩ", "᮫", "ᮬ", "ᮭ", "᯦",
     "ᯨ", "ᯩ", "ᯭ", "ᯯ", "ᯰ", "ᯱ", "U+1C2C", "U+1C2D", "U+1C2E", "U+1C2F",
     "U+1C30", "U+1C31", "U+1C32", "U+1C33", "U+1C36", "U+1C37", "U+1C78",
     "U+1C79", "U+1C7A", "U+1C7B", "U+1C7C", "U+1C7D", "᳐", "᳑", "᳒", "᳔",
     "᳕", "᳖", "᳗", "᳘", "᳙", "᳚", "᳛", "᳜", "᳝", "᳞", "᳟", "᳠", "᳢", "᳣",
     "᳤", "᳥", "᳦", "᳧", "᳨", "᳭", "᳴", "᳸", "᳹", "U+1D2C", "U+1D2D",
     "U+1D2E", "U+1D2F", "U+1D30", "U+1D31", "U+1D32", "U+1D33", "U+1D34",
     "U+1D35", "U+1D36", "U+1D37", "U+1D38", "U+1D39", "U+1D3A", "U+1D3B",
     "U+1D3C", "U+1D3D", "U+1D3E", "U+1D3F", "U+1D40", "U+1D41", "U+1D42",
     "U+1D43", "U+1D44", "U+1D45", "U+1D46", "U+1D47", "U+1D48", "U+1D49",
     "U+1D4A", "U+1D4B", "U+1D4C", "U+1D4D", "U+1D4E", "U+1D4F", "U+1D50",
     "U+1D51", "U+1D52", "U+1D53", "U+1D54", "U+1D55", "U+1D56", "U+1D57",
     "U+1D58", "U+1D59", "U+1D5A", "U+1D5B", "U+1D5C", "U+1D5D", "U+1D5E",
     "U+1D5F", "U+1D60", "U+1D61", "U+1D62", "U+1D63", "U+1D64", "U+1D65",
     "U+1D66", "U+1D67", "U+1D68", "U+1D69", "U+1D6A", "U+1D78", "ᶛ", "ᶜ",
     "ᶝ", "ᶞ", "ᶟ", "ᶠ", "ᶡ", "ᶢ", "ᶣ", "ᶤ", "ᶥ", "ᶦ", "ᶧ", "ᶨ", "ᶩ", "ᶪ",
     "ᶫ", "ᶬ", "ᶭ", "ᶮ", "ᶯ", "ᶰ", "ᶱ", "ᶲ", "ᶳ", "ᶴ", "ᶵ", "ᶶ", "ᶷ", "ᶸ",
     "ᶹ", "ᶺ", "ᶻ", "ᶼ", "ᶽ", "ᶾ", "ᶿ", "᷀", "᷁", "᷂", "᷃", "᷄", "᷅", "᷆",
     "᷇", "᷈", "᷉", "᷊", "᷋", "᷌", "᷍", "᷎", "᷏", "᷐", "᷑", "᷒", "ᷓ", "ᷔ",
     "ᷕ", "ᷖ", "ᷗ", "ᷘ", "ᷙ", "ᷚ", "ᷛ", "ᷜ", "ᷝ", "ᷞ", "ᷟ", "ᷠ", "ᷡ", "ᷢ",
     "ᷣ", "ᷤ", "ᷥ", "ᷦ", "ᷧ", "ᷨ", "ᷩ", "ᷪ", "ᷫ", "ᷬ", "ᷭ", "ᷮ", "ᷯ", "ᷰ",
     "ᷱ", "ᷲ", "ᷳ", "ᷴ", "᷵", "᷶", "᷷", "᷸", "᷹", "᷺", "᷻", "᷼", "᷽", "᷾",
     "᷿", "᾽", "᾿", "῀", "῁", "῍", "῎", "῏", "῝", "῞", "῟", "῭", "΅", "`",
     "´", "῾", "U+200B", "U+200C", "U+200D", "U+200E", "U+200F", "U+2018",
     "U+2019", "U+2024", "U+2027", "U+202A", "U+202B", "U+202C", "U+202D",
     "U+202E", "U+2060", "U+2061", "U+2062", "U+2063", "U+2064", "U+2066",
     "U+2067", "U+2068", "U+2069", "U+206A", "U+206B", "U+206C", "U+206D",
     "U+206E", "U+206F", "U+2071", "U+207F", "ₐ", "ₑ", "ₒ", "ₓ", "ₔ", "ₕ",
     "ₖ", "ₗ", "ₘ", "ₙ", "ₚ", "ₛ", "ₜ", "⃐", "⃑", "⃒", "⃓", "⃔", "⃕", "⃖",
     "⃗", "⃘", "⃙", "⃚", "⃛", "⃜", "⃝", "⃞", "⃟", "⃠", "⃡", "⃢", "⃣", "⃤",
     "⃥", "⃦", "⃧", "⃨", "⃩", "⃪", "⃫", "⃬", "⃭", "⃮", "⃯", "⃰", "U+2C7C",
     "U+2C7D", "⳯", "⳰", "⳱", "U+2D6F", "U+2D7F", "ⷠ", "ⷡ", "ⷢ", "ⷣ", "ⷤ",
     "ⷥ", "ⷦ", "ⷧ", "ⷨ", "ⷩ", "ⷪ", "ⷫ", "ⷬ", "ⷭ", "ⷮ", "ⷯ", "ⷰ", "ⷱ", "ⷲ",
     "ⷳ", "ⷴ", "ⷵ", "ⷶ", "ⷷ", "ⷸ", "ⷹ", "ⷺ", "ⷻ", "ⷼ", "ⷽ", "ⷾ", "ⷿ",
     "U+2E2F", "U+3005", "U+302A", "U+302B", "U+302C", "U+302D", "U+3031",
     "U+3032", "U+3033", "U+3034", "U+3035", "U+303B", "゙", "゚", "゛", "゜",
     "ゝ", "ゞ", "ー", "ヽ", "ヾ", "U+A015", "ꓸ", "ꓹ", "ꓺ", "ꓻ", "ꓼ", "ꓽ",
     "U+A60C", "U+A66F", "U+A670", "U+A671", "U+A672", "U+A674", "U+A675",
     "U+A676", "U+A677", "U+A678", "U+A679", "U+A67A", "U+A67B", "U+A67C",
     "U+A67D", "U+A67F", "ꚜ", "ꚝ", "ꚞ", "ꚟ", "꛰", "꛱", "U+A700", "U+A701",
     "U+A702", "U+A703", "U+A704", "U+A705", "U+A706", "U+A707", "U+A708",
     "U+A709", "U+A70A", "U+A70B", "U+A70C", "U+A70D", "U+A70E", "U+A70F",
     "U+A710", "U+A711", "U+A712", "U+A713", "U+A714", "U+A715", "U+A716",
     "U+A717", "U+A718", "U+A719", "U+A71A", "U+A71B", "U+A71C", "U+A71D",
     "U+A71E", "U+A71F", "U+A720", "U+A721", "U+A770", "ꞈ", "꞉", "꞊", "꟱",
     "ꟲ", "ꟳ", "ꟴ", "ꟸ", "ꟹ", "U+A802", "U+A806", "U+A80B", "U+A825",
     "U+A826", "U+A82C", "꣄", "ꣅ", "꣠", "꣡", "꣢", "꣣", "꣤", "꣥", "꣦", "꣧",
     "꣨", "꣩", "꣪", "꣫", "꣬", "꣭", "꣮", "꣯", "꣰", "꣱", "ꣿ", "U+A926",
     "U+A927", "U+A928", "U+A929", "U+A92A", "U+A92B", "U+A92C", "U+A92D",
     "U+A947", "U+A948", "U+A949", "U+A94A", "U+A94B", "U+A94C", "U+A94D",
     "U+A94E", "U+A94F", "U+A950", "U+A951", "ꦀ", "ꦁ", "ꦂ", "꦳", "ꦶ", "ꦷ",
     "ꦸ", "ꦹ", "ꦼ", "ꦽ", "ꧏ", "ꧥ", "ꧦ", "U+AA29", "U+AA2A", "U+AA2B",
     "U+AA2C", "U+AA2D", "U+AA2E", "U+AA31", "U+AA32", "U+AA35", "U+AA36",
     "U+AA43", "U+AA4C", "U+AA70", "U+AA7C", "ꪰ", "ꪲ", "ꪳ", "ꪴ", "ꪷ", "ꪸ",
     "ꪾ", "꪿", "꫁", "ꫝ", "ꫬ", "ꫭ", "ꫳ", "ꫴ", "꫶", "U+AB5B", "U+AB5C",
     "U+AB5D", "U+AB5E", "U+AB5F", "U+AB69", "U+AB6A", "U+AB6B", "ꯥ", "ꯨ",
     "꯭", "U+FB1E", "﮲", "﮳", "﮴", "﮵", "﮶", "﮷", "﮸", "﮹", "﮺", "﮻", "﮼",
     "﮽", "﮾", "﮿", "﯀", "﯁", "﯂", "U+FE00", "U+FE01", "U+FE02", "U+FE03",
     "U+FE04", "U+FE05", "U+FE06", "U+FE07", "U+FE08", "U+FE09", "U+FE0A",
     "U+FE0B", "U+FE0C", "U+FE0D", "U+FE0E", "U+FE0F", "U+FE13", "U+FE20",
     "U+FE21", "U+FE22", "U+FE23", "U+FE24", "U+FE25", "U+FE26", "U+FE27",
     "U+FE28", "U+FE29", "U+FE2A", "U+FE2B", "U+FE2C", "U+FE2D", "U+FE2E",
     "U+FE2F", "U+FE52", "U+FE55", "﻿", "U+FF07", "U+FF0E", "U+FF1A",
     "U+FF3E", "U+FF40", "U+FF70", "ﾞ", "ﾟ", "￣", "￹", "￺", "￻", "U+101FD",
     "U+102E0", "U+10376", "U+10377", "U+10378", "U+10379", "U+1037A",
     "U+10780", "U+10781", "U+10782", "U+10783", "U+10784", "U+10785",
     "U+10787", "U+10788", "U+10789", "U+1078A", "U+1078B", "U+1078C",
     "U+1078D", "U+1078E", "U+1078F", "U+10790", "U+10791", "U+10792",
     "U+10793", "U+10794", "U+10795", "U+10796", "U+10797", "U+10798",
     "U+10799", "U+1079A", "U+1079B", "U+1079C", "U+1079D", "U+1079E",
     "U+1079F", "U+107A0", "U+107A1", "U+107A2", "U+107A3", "U+107A4",
     "U+107A5", "U+107A6", "U+107A7", "U+107A8", "U+107A9", "U+107AA",
     "U+107AB", "U+107AC", "U+107AD", "U+107AE", "U+107AF", "U+107B0",
     "U+107B2", "U+107B3", "U+107B4", "U+107B5", "U+107B6", "U+107B7",
     "U+107B8", "U+107B9", "U+107BA", "U+10A01", "U+10A02", "U+10A03",
     "U+10A05", "U+10A06", "U+10A0C", "U+10A0D", "U+10A0E", "U+10A0F",
     "U+10A38", "U+10A39", "U+10A3A", "U+10A3F", "U+10AE5", "U+10AE6",
     "U+10D24", "U+10D25", "U+10D26", "U+10D27", "U+10D4E", "U+10D69",
     "U+10D6A", "U+10D6B", "U+10D6C", "U+10D6D", "U+10D6F", "U+10EAB",
     "U+10EAC", "U+10EC5", "U+10EFA", "U+10EFB", "U+10EFC", "U+10EFD",
     "U+10EFE", "U+10EFF", "U+10F46", "U+10F47", "U+10F48", "U+10F49",
     "U+10F4A", "U+10F4B", "U+10F4C", "U+10F4D", "U+10F4E", "U+10F4F",
     "U+10F50", "U+10F82", "U+10F83", "U+10F84", "U+10F85", "U+11001",
     "U+11038", "U+11039", "U+1103A", "U+1103B", "U+1103C", "U+1103D",
     "U+1103E", "U+1103F", "U+11040", "U+11041", "U+11042", "U+11043",
     "U+11044", "U+11045", "U+11046", "U+11070", "U+11073", "U+11074",
     "U+1107F", "U+11080", "U+11081", "U+110B3", "U+110B4", "U+110B5",
     "U+110B6", "U+110B9", "U+110BA", "U+110BD", "U+110C2", "U+110CD",
     "U+11100", "U+11101", "U+11102", "U+11127", "U+11128", "U+11129",
     "U+1112A", "U+1112B", "U+1112D", "U+1112E", "U+1112F", "U+11130",
     "U+11131", "U+11132", "U+11133", "U+11134", "U+11173", "U+11180",
     "U+11181", "U+111B6", "U+111B7", "U+111B8", "U+111B9", "U+111BA",
     "U+111BB", "U+111BC", "U+111BD", "U+111BE", "U+111C9", "U+111CA",
     "U+111CB", "U+111CC", "U+111CF", "U+1122F", "U+11230", "U+11231",
     "U+11234", "U+11236", "U+11237", "U+1123E", "U+11241", "U+112DF",
     "U+112E3", "U+112E4", "U+112E5", "U+112E6", "U+112E7", "U+112E8",
     "U+112E9", "U+112EA", "U+11300", "U+11301", "U+1133B", "U+1133C",
     "U+11340", "U+11366", "U+11367", "U+11368", "U+11369", "U+1136A",
     "U+1136B", "U+1136C", "U+11370", "U+11371", "U+11372", "U+11373",
     "U+11374", "U+113BB", "U+113BC", "U+113BD", "U+113BE", "U+113BF",
     "U+113C0", "U+113CE", "U+113D0", "U+113D2", "U+113E1", "U+113E2",
     "U+11438", "U+11439", "U+1143A", "U+1143B", "U+1143C", "U+1143D",
     "U+1143E", "U+1143F", "U+11442", "U+11443", "U+11444", "U+11446",
     "U+1145E", "U+114B3", "U+114B4", "U+114B5", "U+114B6", "U+114B7",
     "U+114B8", "U+114BA", "U+114BF", "U+114C0", "U+114C2", "U+114C3",
     "U+115B2", "U+115B3", "U+115B4", "U+115B5", "U+115BC", "U+115BD",
     "U+115BF", "U+115C0", "U+115DC", "U+115DD", "U+11633", "U+11634",
     "U+11635", "U+11636", "U+11637", "U+11638", "U+11639", "U+1163A",
     "U+1163D", "U+1163F", "U+11640", "U+116AB", "U+116AD", "U+116B0",
     "U+116B1", "U+116B2", "U+116B3", "U+116B4", "U+116B5", "U+116B7",
     "U+1171D", "U+1171F", "U+11722", "U+11723", "U+11724", "U+11725",
     "U+11727", "U+11728", "U+11729", "U+1172A", "U+1172B", "U+1182F",
     "U+11830", "U+11831", "U+11832", "U+11833", "U+11834", "U+11835",
     "U+11836", "U+11837", "U+11839", "U+1183A", "U+1193B", "U+1193C",
     "U+1193E", "U+11943", "U+119D4", "U+119D5", "U+119D6", "U+119D7",
     "U+119DA", "U+119DB", "U+119E0", "U+11A01", "U+11A02", "U+11A03",
     "U+11A04", "U+11A05", "U+11A06", "U+11A07", "U+11A08", "U+11A09",
     "U+11A0A", "U+11A33", "U+11A34", "U+11A35", "U+11A36", "U+11A37",
     "U+11A38", "U+11A3B", "U+11A3C", "U+11A3D", "U+11A3E", "U+11A47",
     "U+11A51", "U+11A52", "U+11A53", "U+11A54", "U+11A55", "U+11A56",
     "U+11A59", "U+11A5A", "U+11A5B", "U+11A8A", "U+11A8B", "U+11A8C",
     "U+11A8D", "U+11A8E", "U+11A8F", "U+11A90", "U+11A91", "U+11A92",
     "U+11A93", "U+11A94", "U+11A95", "U+11A96", "U+11A98", "U+11A99",
     "U+11B60", "U+11B62", "U+11B63", "U+11B64", "U+11B66", "U+11C30",
     "U+11C31", "U+11C32", "U+11C33", "U+11C34", "U+11C35", "U+11C36",
     "U+11C38", "U+11C39", "U+11C3A", "U+11C3B", "U+11C3C", "U+11C3D",
     "U+11C3F", "U+11C92", "U+11C93", "U+11C94", "U+11C95", "U+11C96",
     "U+11C97", "U+11C98", "U+11C99", "U+11C9A", "U+11C9B", "U+11C9C",
     "U+11C9D", "U+11C9E", "U+11C9F", "U+11CA0", "U+11CA1", "U+11CA2",
     "U+11CA3", "U+11CA4", "U+11CA5", "U+11CA6", "U+11CA7", "U+11CAA",
     "U+11CAB", "U+11CAC", "U+11CAD", "U+11CAE", "U+11CAF", "U+11CB0",
     "U+11CB2", "U+11CB3", "U+11CB5", "U+11CB6", "U+11D31", "U+11D32",
     "U+11D33", "U+11D34", "U+11D35", "U+11D36", "U+11D3A", "U+11D3C",
     "U+11D3D", "U+11D3F", "U+11D40", "U+11D41", "U+11D42", "U+11D43",
     "U+11D44", "U+11D45", "U+11D47", "U+11D90", "U+11D91", "U+11D95",
     "U+11D97", "U+11DD9", "U+11EF3", "U+11EF4", "U+11F00", "U+11F01",
     "U+11F36", "U+11F37", "U+11F38", "U+11F39", "U+11F3A", "U+11F40",
     "U+11F42", "U+11F5A", "U+13430", "U+13431", "U+13432", "U+13433",
     "U+13434", "U+13435", "U+13436", "U+13437", "U+13438", "U+13439",
     "U+1343A", "U+1343B", "U+1343C", "U+1343D", "U+1343E", "U+1343F",
     "U+13440", "U+13447", "U+13448", "U+13449", "U+1344A", "U+1344B",
     "U+1344C", "U+1344D", "U+1344E", "U+1344F", "U+13450", "U+13451",
     "U+13452", "U+13453", "U+13454", "U+13455", "U+1611E", "U+1611F",
     "U+16120", "U+16121", "U+16122", "U+16123", "U+16124", "U+16125",
     "U+16126", "U+16127", "U+16128", "U+16129", "U+1612D", "U+1612E",
     "U+1612F", "U+16AF0", "U+16AF1", "U+16AF2", "U+16AF3", "U+16AF4",
     "U+16B30", "U+16B31", "U+16B32", "U+16B33", "U+16B34", "U+16B35",
     "U+16B36", "U+16B40", "U+16B41", "U+16B42", "U+16B43", "U+16D40",
     "U+16D41", "U+16D42", "U+16D6B", "U+16D6C", "U+16F4F", "U+16F8F",
     "U+16F90", "U+16F91", "U+16F92", "U+16F93", "U+16F94", "U+16F95",
     "U+16F96", "U+16F97", "U+16F98", "U+16F99", "U+16F9A", "U+16F9B",
     "U+16F9C", "U+16F9D", "U+16F9E", "U+16F9F", "U+16FE0", "U+16FE1",
     "U+16FE3", "U+16FE4", "U+16FF2", "U+16FF3", "U+1AFF0", "U+1AFF1",
     "U+1AFF2", "U+1AFF3", "U+1AFF5", "U+1AFF6", "U+1AFF7", "U+1AFF8",
     "U+1AFF9", "U+1AFFA", "U+1AFFB", "U+1AFFD", "U+1AFFE", "U+1BC9D",
     "U+1BC9E", "U+1BCA0", "U+1BCA1", "U+1BCA2", "U+1BCA3", "U+1CF00",
     "U+1CF01", "U+1CF02", "U+1CF03", "U+1CF04", "U+1CF05", "U+1CF06",
     "U+1CF07", "U+1CF08", "U+1CF09", "U+1CF0A", "U+1CF0B", "U+1CF0C",
     "U+1CF0D", "U+1CF0E", "U+1CF0F", "U+1CF10", "U+1CF11", "U+1CF12",
     "U+1CF13", "U+1CF14", "U+1CF15", "U+1CF16", "U+1CF17", "U+1CF18",
     "U+1CF19", "U+1CF1A", "U+1CF1B", "U+1CF1C", "U+1CF1D", "U+1CF1E",
     "U+1CF1F", "U+1CF20", "U+1CF21", "U+1CF22", "U+1CF23", "U+1CF24",
     "U+1CF25", "U+1CF26", "U+1CF27", "U+1CF28", "U+1CF29", "U+1CF2A",
     "U+1CF2B", "U+1CF2C", "U+1CF2D", "U+1CF30", "U+1CF31", "U+1CF32",
     "U+1CF33", "U+1CF34", "U+1CF35", "U+1CF36", "U+1CF37", "U+1CF38",
     "U+1CF39", "U+1CF3A", "U+1CF3B", "U+1CF3C", "U+1CF3D", "U+1CF3E",
     "U+1CF3F", "U+1CF40", "U+1CF41", "U+1CF42", "U+1CF43", "U+1CF44",
     "U+1CF45", "U+1CF46", "U+1D167", "U+1D168", "U+1D169", "U+1D173",
     "U+1D174", "U+1D175", "U+1D176", "U+1D177", "U+1D178", "U+1D179",
     "U+1D17A", "U+1D17B", "U+1D17C", "U+1D17D", "U+1D17E", "U+1D17F",
     "U+1D180", "U+1D181", "U+1D182", "U+1D185", "U+1D186", "U+1D187",
     "U+1D188", "U+1D189", "U+1D18A", "U+1D18B", "U+1D1AA", "U+1D1AB",
     "U+1D1AC", "U+1D1AD", "U+1D242", "U+1D243", "U+1D244", "U+1DA00",
     "U+1DA01", "U+1DA02", "U+1DA03", "U+1DA04", "U+1DA05", "U+1DA06",
     "U+1DA07", "U+1DA08", "U+1DA09", "U+1DA0A", "U+1DA0B", "U+1DA0C",
     "U+1DA0D", "U+1DA0E", "U+1DA0F", "U+1DA10", "U+1DA11", "U+1DA12",
     "U+1DA13", "U+1DA14", "U+1DA15", "U+1DA16", "U+1DA17", "U+1DA18",
     "U+1DA19", "U+1DA1A", "U+1DA1B", "U+1DA1C", "U+1DA1D", "U+1DA1E",
     "U+1DA1F", "U+1DA20", "U+1DA21", "U+1DA22", "U+1DA23", "U+1DA24",
     "U+1DA25", "U+1DA26", "U+1DA27", "U+1DA28", "U+1DA29", "U+1DA2A",
     "U+1DA2B", "U+1DA2C", "U+1DA2D", "U+1DA2E", "U+1DA2F", "U+1DA30",
     "U+1DA31", "U+1DA32", "U+1DA33", "U+1DA34", "U+1DA35", "U+1DA36",
     "U+1DA3B", "U+1DA3C", "U+1DA3D", "U+1DA3E", "U+1DA3F", "U+1DA40",
     "U+1DA41", "U+1DA42", "U+1DA43", "U+1DA44", "U+1DA45", "U+1DA46",
     "U+1DA47", "U+1DA48", "U+1DA49", "U+1DA4A", "U+1DA4B", "U+1DA4C",
     "U+1DA4D", "U+1DA4E", "U+1DA4F", "U+1DA50", "U+1DA51", "U+1DA52",
     "U+1DA53", "U+1DA54", "U+1DA55", "U+1DA56", "U+1DA57", "U+1DA58",
     "U+1DA59", "U+1DA5A", "U+1DA5B", "U+1DA5C", "U+1DA5D", "U+1DA5E",
     "U+1DA5F", "U+1DA60", "U+1DA61", "U+1DA62", "U+1DA63", "U+1DA64",
     "U+1DA65", "U+1DA66", "U+1DA67", "U+1DA68", "U+1DA69", "U+1DA6A",
     "U+1DA6B", "U+1DA6C", "U+1DA75", "U+1DA84", "U+1DA9B", "U+1DA9C",
     "U+1DA9D", "U+1DA9E", "U+1DA9F", "U+1DAA1", "U+1DAA2", "U+1DAA3",
     "U+1DAA4", "U+1DAA5", "U+1DAA6", "U+1DAA7", "U+1DAA8", "U+1DAA9",
     "U+1DAAA", "U+1DAAB", "U+1DAAC", "U+1DAAD", "U+1DAAE", "U+1DAAF",
     "U+1E000", "U+1E001", "U+1E002", "U+1E003", "U+1E004", "U+1E005",
     "U+1E006", "U+1E008", "U+1E009", "U+1E00A", "U+1E00B", "U+1E00C",
     "U+1E00D", "U+1E00E", "U+1E00F", "U+1E010", "U+1E011", "U+1E012",
     "U+1E013", "U+1E014", "U+1E015", "U+1E016", "U+1E017", "U+1E018",
     "U+1E01B", "U+1E01C", "U+1E01D", "U+1E01E", "U+1E01F", "U+1E020",
     "U+1E021", "U+1E023", "U+1E024", "U+1E026", "U+1E027", "U+1E028",
     "U+1E029", "U+1E02A", "U+1E030", "U+1E031", "U+1E032", "U+1E033",
     "U+1E034", "U+1E035", "U+1E036", "U+1E037", "U+1E038", "U+1E039",
     "U+1E03A", "U+1E03B", "U+1E03C", "U+1E03D", "U+1E03E", "U+1E03F",
     "U+1E040", "U+1E041", "U+1E042", "U+1E043", "U+1E044", "U+1E045",
     "U+1E046", "U+1E047", "U+1E048", "U+1E049", "U+1E04A", "U+1E04B",
     "U+1E04C", "U+1E04D", "U+1E04E", "U+1E04F", "U+1E050", "U+1E051",
     "U+1E052", "U+1E053", "U+1E054", "U+1E055", "U+1E056", "U+1E057",
     "U+1E058", "U+1E059", "U+1E05A", "U+1E05B", "U+1E05C", "U+1E05D",
     "U+1E05E", "U+1E05F", "U+1E060", "U+1E061", "U+1E062", "U+1E063",
     "U+1E064", "U+1E065", "U+1E066", "U+1E067", "U+1E068", "U+1E069",
     "U+1E06A", "U+1E06B", "U+1E06C", "U+1E06D", "U+1E08F", "U+1E130",
     "U+1E131", "U+1E132", "U+1E133", "U+1E134", "U+1E135", "U+1E136",
     "U+1E137", "U+1E138", "U+1E139", "U+1E13A", "U+1E13B", "U+1E13C",
     "U+1E13D", "U+1E2AE", "U+1E2EC", "U+1E2ED", "U+1E2EE", "U+1E2EF",
     "U+1E4EB", "U+1E4EC", "U+1E4ED", "U+1E4EE", "U+1E4EF", "U+1E5EE",
     "U+1E5EF", "U+1E6E3", "U+1E6E6", "U+1E6EE", "U+1E6EF", "U+1E6F5",
     "U+1E6FF", "U+1E8D0", "U+1E8D1", "U+1E8D2", "U+1E8D3", "U+1E8D4",
     "U+1E8D5", "U+1E8D6", "U+1E944", "U+1E945", "U+1E946", "U+1E947",
     "U+1E948", "U+1E949", "U+1E94A", "U+1E94B", "U+1F3FB", "U+1F3FC",
     "U+1F3FD", "U+1F3FE", "U+1F3FF", "U+E0001", "U+E0020", "U+E0021",
     "U+E0022", "U+E0023", "U+E0024", "U+E0025", "U+E0026", "U+E0027",
     "U+E0028", "U+E0029", "U+E002A", "U+E002B", "U+E002C", "U+E002D",
     "U+E002E", "U+E002F", "U+E0030", "U+E0031", "U+E0032", "U+E0033",
     "U+E0034", "U+E0035", "U+E0036", "U+E0037", "U+E0038", "U+E0039",
     "U+E003A", "U+E003B", "U+E003C", "U+E003D", "U+E003E", "U+E003F",
     "U+E0040", "U+E0041", "U+E0042", "U+E0043", "U+E0044", "U+E0045",
     "U+E0046", "U+E0047", "U+E0048", "U+E0049", "U+E004A", "U+E004B",
     "U+E004C", "U+E004D", "U+E004E", "U+E004F", "U+E0050", "U+E0051",
     "U+E0052", "U+E0053", "U+E0054", "U+E0055", "U+E0056", "U+E0057",
     "U+E0058", "U+E0059", "U+E005A", "U+E005B", "U+E005C", "U+E005D",
     "U+E005E", "U+E005F", "U+E0060", "U+E0061", "U+E0062", "U+E0063",
     "U+E0064", "U+E0065", "U+E0066", "U+E0067", "U+E0068", "U+E0069",
     "U+E006A", "U+E006B", "U+E006C", "U+E006D", "U+E006E", "U+E006F",
     "U+E0070", "U+E0071", "U+E0072", "U+E0073", "U+E0074", "U+E0075",
     "U+E0076", "U+E0077", "U+E0078", "U+E0079", "U+E007A", "U+E007B",
     "U+E007C", "U+E007D", "U+E007E", "U+E007F", "U+E0100", "U+E0101",
     "U+E0102", "U+E0103", "U+E0104", "U+E0105", "U+E0106", "U+E0107",
     "U+E0108", "U+E0109", "U+E010A", "U+E010B", "U+E010C", "U+E010D",
     "U+E010E", "U+E010F", "U+E0110", "U+E0111", "U+E0112", "U+E0113",
     "U+E0114", "U+E0115", "U+E0116", "U+E0117", "U+E0118", "U+E0119",
     "U+E011A", "U+E011B", "U+E011C", "U+E011D", "U+E011E", "U+E011F",
     "U+E0120", "U+E0121", "U+E0122", "U+E0123", "U+E0124", "U+E0125",
     "U+E0126", "U+E0127", "U+E0128", "U+E0129", "U+E012A", "U+E012B",
     "U+E012C", "U+E012D", "U+E012E", "U+E012F", "U+E0130", "U+E0131",
     "U+E0132", "U+E0133", "U+E0134", "U+E0135", "U+E0136", "U+E0137",
     "U+E0138", "U+E0139", "U+E013A", "U+E013B", "U+E013C", "U+E013D",
     "U+E013E", "U+E013F", "U+E0140", "U+E0141", "U+E0142", "U+E0143",
     "U+E0144", "U+E0145", "U+E0146", "U+E0147", "U+E0148", "U+E0149",
     "U+E014A", "U+E014B", "U+E014C", "U+E014D", "U+E014E", "U+E014F",
     "U+E0150", "U+E0151", "U+E0152", "U+E0153", "U+E0154", "U+E0155",
     "U+E0156", "U+E0157", "U+E0158", "U+E0159", "U+E015A", "U+E015B",
     "U+E015C", "U+E015D", "U+E015E", "U+E015F", "U+E0160", "U+E0161",
     "U+E0162", "U+E0163", "U+E0164", "U+E0165", "U+E0166", "U+E0167",
     "U+E0168", "U+E0169", "U+E016A", "U+E016B", "U+E016C", "U+E016D",
     "U+E016E", "U+E016F", "U+E0170", "U+E0171", "U+E0172", "U+E0173",
     "U+E0174", "U+E0175", "U+E0176", "U+E0177", "U+E0178", "U+E0179",
     "U+E017A", "U+E017B", "U+E017C", "U+E017D", "U+E017E", "U+E017F",
     "U+E0180", "U+E0181", "U+E0182", "U+E0183", "U+E0184", "U+E0185",
     "U+E0186", "U+E0187", "U+E0188", "U+E0189", "U+E018A", "U+E018B",
     "U+E018C", "U+E018D", "U+E018E", "U+E018F", "U+E0190", "U+E0191",
     "U+E0192", "U+E0193", "U+E0194", "U+E0195", "U+E0196", "U+E0197",
     "U+E0198", "U+E0199", "U+E019A", "U+E019B", "U+E019C", "U+E019D",
     "U+E019E", "U+E019F", "U+E01A0", "U+E01A1", "U+E01A2", "U+E01A3",
     "U+E01A4", "U+E01A5", "U+E01A6", "U+E01A7", "U+E01A8", "U+E01A9",
     "U+E01AA", "U+E01AB", "U+E01AC", "U+E01AD", "U+E01AE", "U+E01AF",
     "U+E01B0", "U+E01B1", "U+E01B2", "U+E01B3", "U+E01B4", "U+E01B5",
     "U+E01B6", "U+E01B7", "U+E01B8", "U+E01B9", "U+E01BA", "U+E01BB",
     "U+E01BC", "U+E01BD", "U+E01BE", "U+E01BF", "U+E01C0", "U+E01C1",
     "U+E01C2", "U+E01C3", "U+E01C4", "U+E01C5", "U+E01C6", "U+E01C7",
     "U+E01C8", "U+E01C9", "U+E01CA", "U+E01CB", "U+E01CC", "U+E01CD",
     "U+E01CE", "U+E01CF", "U+E01D0", "U+E01D1", "U+E01D2", "U+E01D3",
     "U+E01D4", "U+E01D5", "U+E01D6", "U+E01D7", "U+E01D8", "U+E01D9",
     "U+E01DA", "U+E01DB", "U+E01DC", "U+E01DD", "U+E01DE", "U+E01DF",
     "U+E01E0", "U+E01E1", "U+E01E2", "U+E01E3", "U+E01E4", "U+E01E5",
     "U+E01E6", "U+E01E7", "U+E01E8", "U+E01E9", "U+E01EA", "U+E01EB",
     "U+E01EC", "U+E01ED", "U+E01EE", "U+E01EF"}

\* The characters of the property Cased.
Cased ==
    {"A", "B", "C", "D", "E", "F", "G", "H", "I", "J", "K", "L", "M", "N",
     "O", "P", "Q", "R", "S", "T", "U", "V", "W", "X", "Y", "Z", "a", "b",
     "c", "d", "e", "f", "g", "h", "i", "j", "k", "l", "m", "n", "o", "p",
     "q", "r", "s", "t", "u", "v", "w", "x", "y", "z", "ª", "µ", "º", "À",
     "Á", "Â", "Ã", "Ä", "Å", "Æ", "Ç", "È", "É", "Ê", "Ë", "Ì", "Í", "Î",
     "Ï", "Ð", "Ñ", "Ò", "Ó", "Ô", "Õ", "Ö", "Ø", "Ù", "Ú", "Û", "Ü", "Ý",
     "Þ", "ß", "à", "á", "â", "ã", "ä", "å", "æ", "ç", "è", "é", "ê", "ë",
     "ì", "í", "î", "ï", "ð", "ñ", "ò", "ó", "ô", "õ", "ö", "ø", "ù", "ú",
     "û", "ü", "ý", "þ", "ÿ", "U+0100", "U+0101", "U+0102", "U+0103",
     "U+0104", "U+0105", "U+0106", "U+0107", "U+0108", "U+0109", "U+010A",
     "U+010B", "U+010C", "U+010D", "U+010E", "U+010F", "U+0110", "U+0111",
     "U+0112", "U+0113", "U+0114", "U+0115", "U+0116", "U+0117", "U+0118",
     "U+0119", "U+011A", "U+011B", "U+011C", "U+011D", "U+011E", "U+011F",
     "U+0120", "U+0121", "U+0122", "U+0123", "U+0124", "U+0125", "U+0126",
     "U+0127", "U+0128", "U+0129", "U+012A", "U+012B", "U+012C", "U+012D",
     "U+012E", "U+012F", "U+0130", "U+0131", "U+0132", "U+0133", "U+0134",
     "U+0135", "U+0136", "U+0137", "U+0138", "U+0139", "U+013A", "U+013B",
     "U+013C", "U+013D", "U+013E", "U+013F", "U+0140", "U+0141", "U+0142",
     "U+0143", "U+0144", "U+0145", "U+0146", "U+0147", "U+0148", "U+0149",
     "U+014A", "U+014B", "U+014C", "U+014D", "U+014E", "U+014F", "U+0150",
     "U+0151", "U+0152", "U+0153", "U+0154", "U+0155", "U+0156", "U+0157",
     "U+0158", "U+0159", "U+015A", "U+015B", "U+015C", "U+015D", "U+015E",
     "U+015F", "U+0160", "U+0161", "U+0162", "U+0163", "U+0164", "U+0165",
     "U+0166", "U+0167", "U+0168", "U+0169", "U+016A", "U+016B", "U+016C",
     "U+016D", "U+016E", "U+016F", "U+0170", "U+0171", "U+0172", "U+0173",
     "U+0174", "U+0175", "U+0176", "U+0177", "U+0178", "U+0179", "U+017A",
     "U+017B", "U+017C", "U+017D", "U+017E", "U+017F", "ƀ", "Ɓ", "Ƃ", "ƃ",
     "Ƅ", "ƅ", "Ɔ", "Ƈ", "ƈ", "Ɖ", "Ɗ", "Ƌ", "ƌ", "ƍ", "Ǝ", "Ə", "Ɛ", "Ƒ",
     "ƒ", "Ɠ", "Ɣ", "ƕ", "Ɩ", "Ɨ", "Ƙ", "ƙ", "ƚ", "ƛ", "Ɯ", "Ɲ", "ƞ", "Ɵ",
     "Ơ", "ơ", "Ƣ", "ƣ", "Ƥ", "ƥ", "Ʀ", "Ƨ", "ƨ", "Ʃ", "ƪ", "ƫ", "Ƭ", "ƭ",
     "Ʈ", "Ư", "ư", "Ʊ", "Ʋ", "Ƴ", "ƴ", "Ƶ", "ƶ", "Ʒ", "Ƹ", "ƹ", "ƺ", "Ƽ",
     "ƽ", "ƾ", "ƿ", "Ǆ", "ǅ", "ǆ", "Ǉ", "ǈ", "ǉ", "Ǌ", "ǋ", "ǌ", "Ǎ", "ǎ",
     "Ǐ", "ǐ", "Ǒ", "ǒ", "Ǔ", "ǔ", "Ǖ", "ǖ", "Ǘ", "ǘ", "Ǚ", "ǚ", "Ǜ", "ǜ",
     "ǝ", "Ǟ", "ǟ", "Ǡ", "ǡ", "Ǣ", "ǣ", "Ǥ", "ǥ", "Ǧ", "ǧ", "Ǩ", "ǩ", "Ǫ",
     "ǫ", "Ǭ", "ǭ", "Ǯ", "ǯ", "ǰ", "Ǳ", "ǲ", "ǳ", "Ǵ", "ǵ", "Ƕ", "Ƿ", "Ǹ",
     "ǹ", "Ǻ", "ǻ", "Ǽ", "ǽ", "Ǿ", "ǿ", "U+0200", "U+0201", "U+0202",
     "U+0203", "U+0204", "U+0205", "U+0206", "U+0207", "U+0208", "U+0209",
     "U+020A", "U+020B", "U+020C", "U+020D", "U+020E", "U+020F", "U+0210",
     "U+0211", "U+0212", "U+0213", "U+0214", "U+0215", "U+0216", "U+0217",
     "U+0218", "U+0219", "U+021A", "U+021B", "U+021C", "U+021D", "U+021E",
     "U+021F", "U+0220", "U+0221", "U+0222", "U+0223", "U+0224", "U+0225",
     "U+0226", "U+0227", "U+0228", "U+0229", "U+022A", "U+022B", "U+022C",
     "U+022D", "U+022E", "U+022F", "U+0230", "U+0231", "U+0232", "U+0233",
     "U+0234", "U+0235", "U+0236", "U+0237", "U+0238", "U+0239", "U+023A",
     "U+023B", "U+023C", "U+023D", "U+023E", "U+023F", "U+0240", "U+0241",
     "U+0242", "U+0243", "U+0244", "U+0245", "U+0246", "U+0247", "U+0248",
     "U+0249", "U+024A", "U+024B", "U+024C", "U+024D", "U+024E", "U+024F",
     "U+0250", "U+0251", "U+0252", "U+0253", "U+0254", "U+0255", "U+0256",
     "U+0257", "U+0258", "U+0259", "U+025A", "U+025B", "U+025C", "U+025D",
     "U+025E", "U+025F", "U+0260", "U+0261", "U+0262", "U+0263", "U+0264",
     "U+0265", "U+0266", "U+0267", "U+0268", "U+0269", "U+026A", "U+026B",
     "U+026C", "U+026D", "U+026E", "U+026F", "U+0270", "U+0271", "U+0272",
     "U+0273", "U+0274", "U+0275", "U+0276", "U+0277", "U+0278", "U+0279",
     "U+027A", "U+027B", "U+027C", "U+027D", "U+027E", "U+027F", "ʀ", "ʁ",
     "ʂ", "ʃ", "ʄ", "ʅ", "ʆ", "ʇ", "ʈ", "ʉ", "ʊ", "ʋ", "ʌ", "ʍ", "ʎ", "ʏ",
     "ʐ", "ʑ", "ʒ", "ʓ", "ʖ", "ʗ", "ʘ", "ʙ", "ʚ", "ʛ", "ʜ", "ʝ", "ʞ", "ʟ",
     "ʠ", "ʡ", "ʢ", "ʣ", "ʤ", "ʥ", "ʦ", "ʧ", "ʨ", "ʩ", "ʪ", "ʫ", "ʬ", "ʭ",
     "ʮ", "ʯ", "ʰ", "ʱ", "ʲ", "ʳ", "ʴ", "ʵ", "ʶ", "ʷ", "ʸ", "ˀ", "ˁ", "ˠ",
     "ˡ", "ˢ", "ˣ", "ˤ", "U+0345", "U+0370", "U+0371", "U+0372", "U+0373",
     "U+0376", "U+0377", "U+037A", "U+037B", "U+037C", "U+037D", "U+037F",
     "Ά", "Έ", "Ή", "Ί", "Ό", "Ύ", "Ώ", "ΐ", "Α", "Β", "Γ", "Δ", "Ε", "Ζ",
     "Η", "Θ", "Ι", "Κ", "Λ", "Μ", "Ν", "Ξ", "Ο", "Π", "Ρ", "Σ", "Τ", "Υ",
     "Φ", "Χ", "Ψ", "Ω", "Ϊ", "Ϋ", "ά", "έ", "ή", "ί", "ΰ", "α", "β", "γ",
     "δ", "ε", "ζ", "η", "θ", "ι", "κ", "λ", "μ", "ν", "ξ", "ο", "π", "ρ",
     "ς", "σ", "τ", "υ", "φ", "χ", "ψ", "ω", "ϊ", "ϋ", "ό", "ύ", "ώ", "Ϗ",
     "ϐ", "ϑ", "ϒ", "ϓ", "ϔ", "ϕ", "ϖ", "ϗ", "Ϙ", "ϙ", "Ϛ", "ϛ", "Ϝ", "ϝ",
     "Ϟ", "ϟ", "Ϡ", "ϡ", "Ϣ", "ϣ", "Ϥ", "ϥ", "Ϧ", "ϧ", "Ϩ", "ϩ", "Ϫ", "ϫ",
     "Ϭ", "ϭ", "Ϯ", "ϯ", "ϰ", "ϱ", "ϲ", "ϳ", "ϴ", "ϵ", "Ϸ", "ϸ", "Ϲ", "Ϻ",
     "ϻ", "ϼ", "Ͻ", "Ͼ", "Ͽ", "U+0400", "U+0401", "U+0402", "U+0403",
     "U+0404", "U+0405", "U+0406", "U+0407", "U+0408", "U+0409", "U+040A",
     "U+040B", "U+040C", "U+040D", "U+040E", "U+040F", "U+0410", "U+0411",
     "U+0412", "U+0413", "U+0414", "U+0415", "U+0416", "U+0417", "U+0418",
     "U+0419", "U+041A", "U+041B", "U+041C", "U+041D", "U+041E", "U+041F",
     "U+0420", "U+0421", "U+0422", "U+0423", "U+0424", "U+0425", "U+0426",
     "U+0427", "U+0428", "U+0429", "U+042A", "U+042B", "U+042C", "U+042D",
     "U+042E", "U+042F", "U+0430", "U+0431", "U+0432", "U+0433", "U+0434",
     "U+0435", "U+0436", "U+0437", "U+0438", "U+0439", "U+043A", "U+043B",
     "U+043C", "U+043D", "U+043E", "U+043F", "U+0440", "U+0441", "U+0442",
     "U+0443", "U+0444", "U+0445", "U+0446", "U+0447", "U+0448", "U+0449",
     "U+044A", "U+044B", "U+044C", "U+044D", "U+044E", "U+044F", "U+0450",
     "U+0451", "U+0452", "U+0453", "U+0454", "U+0455", "U+0456", "U+0457",
     "U+0458", "U+0459", "U+045A", "U+045B", "U+045C", "U+045D", "U+045E",
     "U+045F", "U+0460", "U+0461", "U+0462", "U+0463", "U+0464", "U+0465",
     "U+0466", "U+0467", "U+0468", "U+0469", "U+046A", "U+046B", "U+046C",
     "U+046D", "U+046E", "U+046F", "U+0470", "U+0471", "U+0472", "U+0473",
     "U+0474", "U+0475", "U+0476", "U+0477", "U+0478", "U+0479", "U+047A",
     "U+047B", "U+047C", "U+047D", "U+047E", "U+047F", "Ҁ", "ҁ", "Ҋ", "ҋ",
     "Ҍ", "ҍ", "Ҏ", "ҏ", "Ґ", "ґ", "Ғ", "ғ", "Ҕ", "ҕ", "Җ", "җ", "Ҙ", "ҙ",
     "Қ", "қ", "Ҝ", "ҝ", "Ҟ", "ҟ", "Ҡ", "ҡ", "Ң", "ң", "Ҥ", "ҥ", "Ҧ", "ҧ",
     "Ҩ", "ҩ", "Ҫ", "ҫ", "Ҭ", "ҭ", "Ү", "ү", "Ұ", "ұ", "Ҳ", "ҳ", "Ҵ", "ҵ",
     "Ҷ", "ҷ", "Ҹ", "ҹ", "Һ", "һ", "Ҽ", "ҽ", "Ҿ", "ҿ", "Ӏ", "Ӂ", "ӂ", "Ӄ",
     "ӄ", "Ӆ", "ӆ", "Ӈ", "ӈ", "Ӊ", "ӊ", "Ӌ", "ӌ", "Ӎ", "ӎ", "ӏ", "Ӑ", "ӑ",
     "Ӓ", "ӓ", "Ӕ", "ӕ", "Ӗ", "ӗ", "Ә", "ә", "Ӛ", "ӛ", "Ӝ", "ӝ", "Ӟ", "ӟ",
     "Ӡ", "ӡ", "Ӣ", "ӣ", "Ӥ", "ӥ", "Ӧ", "ӧ", "Ө", "ө", "Ӫ", "ӫ", "Ӭ", "ӭ",
     "Ӯ", "ӯ", "Ӱ", "ӱ", "Ӳ", "ӳ", "Ӵ", "ӵ", "Ӷ", "ӷ", "Ӹ", "ӹ", "Ӻ", "ӻ",
     "Ӽ", "ӽ", "Ӿ", "ӿ", "U+0500", "U+0501", "U+0502", "U+0503", "U+0504",
     "U+0505", "U+0506", "U+0507", "U+0508", "U+0509", "U+050A", "U+050B",
     "U+050C", "U+050D", "U+050E", "U+050F", "U+0510", "U+0511", "U+0512",
     "U+0513", "U+0514", "U+0515", "U+0516", "U+0517", "U+0518", "U+0519",
     "U+051A", "U+051B", "U+051C", "U+051D", "U+051E", "U+051F", "U+0520",
     "U+0521", "U+0522", "U+0523", "U+0524", "U+0525", "U+0526", "U+0527",
     "U+0528", "U+0529", "U+052A", "U+052B", "U+052C", "U+052D", "U+052E",
     "U+052F", "U+0531", "U+0532", "U+0533", "U+0534", "U+0535", "U+0536",
     "U+0537", "U+0538", "U+0539", "U+053A", "U+053B", "U+053C", "U+053D",
     "U+053E", "U+053F", "U+0540", "U+0541", "U+0542", "U+0543", "U+0544",
     "U+0545", "U+0546", "U+0547", "U+0548", "U+0549", "U+054A", "U+054B",
     "U+054C", "U+054D", "U+054E", "U+054F", "U+0550", "U+0551", "U+0552",
     "U+0553", "U+0554", "U+0555", "U+0556", "U+0560", "U+0561", "U+0562",
     "U+0563", "U+0564", "U+0565", "U+0566", "U+0567", "U+0568", "U+0569",
     "U+056A", "U+056B", "U+056C", "U+056D", "U+056E", "U+056F", "U+0570",
     "U+0571", "U+0572", "U+0573", "U+0574", "U+0575", "U+0576", "U+0577",
     "U+0578", "U+0579", "U+057A", "U+057B", "U+057C", "U+057D", "U+057E",
     "U+057F", "ր", "ց", "ւ", "փ", "ք", "օ", "ֆ", "և", "ֈ", "Ⴀ", "Ⴁ", "Ⴂ",
     "Ⴃ", "Ⴄ", "Ⴅ", "Ⴆ", "Ⴇ", "Ⴈ", "Ⴉ", "Ⴊ", "Ⴋ", "Ⴌ", "Ⴍ", "Ⴎ", "Ⴏ", "Ⴐ",
     "Ⴑ", "Ⴒ", "Ⴓ", "Ⴔ", "Ⴕ", "Ⴖ", "Ⴗ", "Ⴘ", "Ⴙ", "Ⴚ", "Ⴛ", "Ⴜ", "Ⴝ", "Ⴞ",
     "Ⴟ", "Ⴠ", "Ⴡ", "Ⴢ", "Ⴣ", "Ⴤ", "Ⴥ", "Ⴧ", "Ⴭ", "ა", "ბ", "გ", "დ", "ე",
     "ვ", "ზ", "თ", "ი", "კ", "ლ", "მ", "ნ", "ო", "პ", "ჟ", "რ", "ს", "ტ",
     "უ", "ფ", "ქ", "ღ", "ყ", "შ", "ჩ", "ც", "ძ", "წ", "ჭ", "ხ", "ჯ", "ჰ",
     "ჱ", "ჲ", "ჳ", "ჴ", "ჵ", "ჶ", "ჷ", "ჸ", "ჹ", "ჺ", "ჼ", "ჽ", "ჾ", "ჿ",
     "Ꭰ", "Ꭱ", "Ꭲ", "Ꭳ", "Ꭴ", "Ꭵ", "Ꭶ", "Ꭷ", "Ꭸ", "Ꭹ", "Ꭺ", "Ꭻ", "Ꭼ", "Ꭽ",
     "Ꭾ", "Ꭿ", "Ꮀ", "Ꮁ", "Ꮂ", "Ꮃ", "Ꮄ", "Ꮅ", "Ꮆ", "Ꮇ", "Ꮈ", "Ꮉ", "Ꮊ", "Ꮋ",
     "Ꮌ", "Ꮍ", "Ꮎ", "Ꮏ", "Ꮐ", "Ꮑ", "Ꮒ", "Ꮓ", "Ꮔ", "Ꮕ", "Ꮖ", "Ꮗ", "Ꮘ", "Ꮙ",
     "Ꮚ", "Ꮛ", "Ꮜ", "Ꮝ", "Ꮞ", "Ꮟ", "Ꮠ", "Ꮡ", "Ꮢ", "Ꮣ", "Ꮤ", "Ꮥ", "Ꮦ", "Ꮧ",
     "Ꮨ", "Ꮩ", "Ꮪ", "Ꮫ", "Ꮬ", "Ꮭ", "Ꮮ", "Ꮯ", "Ꮰ", "Ꮱ", "Ꮲ", "Ꮳ", "Ꮴ", "Ꮵ",
     "Ꮶ", "Ꮷ", "Ꮸ", "Ꮹ", "Ꮺ", "Ꮻ", "Ꮼ", "Ꮽ", "Ꮾ", "Ꮿ", "Ᏸ", "Ᏹ", "Ᏺ", "Ᏻ",
     "Ᏼ", "Ᏽ", "ᏸ", "ᏹ", "ᏺ", "ᏻ", "ᏼ", "ᏽ", "ᲀ", "ᲁ", "ᲂ", "ᲃ", "ᲄ", "ᲅ",
     "ᲆ", "ᲇ", "ᲈ", "Ᲊ", "ᲊ", "Ა", "Ბ", "Გ", "Დ", "Ე", "Ვ", "Ზ", "Თ", "Ი",
     "Კ", "Ლ", "Მ", "Ნ", "Ო", "Პ", "Ჟ", "Რ", "Ს", "Ტ", "Უ", "Ფ", "Ქ", "Ღ",
     "Ყ", "Შ", "Ჩ", "Ც", "Ძ", "Წ", "Ჭ", "Ხ", "Ჯ", "Ჰ", "Ჱ", "Ჲ", "Ჳ", "Ჴ",
     "Ჵ", "Ჶ", "Ჷ", "Ჸ", "Ჹ", "Ჺ", "Ჽ", "Ჾ", "Ჿ", "U+1D00", "U+1D01",
     "U+1D02", "U+1D03", "U+1D04", "U+1D05", "U+1D06", "U+1D07", "U+1D08",
     "U+1D09", "U+1D0A", "U+1D0B", "U+1D0C", "U+1D0D", "U+1D0E", "U+1D0F",
     "U+1D10", "U+1D11", "U+1D12", "U+1D13", "U+1D14", "U+1D15", "U+1D16",
     "U+1D17", "U+1D18", "U+1D19", "U+1D1A", "U+1D1B", "U+1D1C", "U+1D1D",
     "U+1D1E", "U+1D1F", "U+1D20", "U+1D21", "U+1D22", "U+1D23", "U+1D24",
     "U+1D25", "U+1D26", "U+1D27", "U+1D28", "U+1D29", "U+1D2A", "U+1D2B",
     "U+1D2C", "U+1D2D", "U+1D2E", "U+1D2F", "U+1D30", "U+1D31", "U+1D32",
     "U+1D33", "U+1D34", "U+1D35", "U+1D36", "U+1D37", "U+1D38", "U+1D39",
     "U+1D3A", "U+1D3B", "U+1D3C", "U+1D3D", "U+1D3E", "U+1D3F", "U+1D40",
     "U+1D41", "U+1D42", "U+1D43", "U+1D44", "U+1D45", "U+1D46", "U+1D47",
     "U+1D48", "U+1D49", "U+1D4A", "U+1D4B", "U+1D4C", "U+1D4D", "U+1D4E",
     "U+1D4F", "U+1D50", "U+1D51", "U+1D52", "U+1D53", "U+1D54", "U+1D55",
     "U+1D56", "U+1D57", "U+1D58", "U+1D59", "U+1D5A", "U+1D5B", "U+1D5C",
     "U+1D5D", "U+1D5E", "U+1D5F", "U+1D60", "U+1D61", "U+1D62", "U+1D63",
     "U+1D64", "U+1D65", "U+1D66", "U+1D67", "U+1D68", "U+1D69", "U+1D6A",
     "U+1D6B", "U+1D6C", "U+1D6D", "U+1D6E", "U+1D6F", "U+1D70", "U+1D71",
     "U+1D72", "U+1D73", "U+1D74", "U+1D75", "U+1D76", "U+1D77", "U+1D78",
     "U+1D79", "U+1D7A", "U+1D7B", "U+1D7C", "U+1D7D", "U+1D7E", "U+1D7F",
     "ᶀ", "ᶁ", "ᶂ", "ᶃ", "ᶄ", "ᶅ", "ᶆ", "ᶇ", "ᶈ", "ᶉ", "ᶊ", "ᶋ", "ᶌ", "ᶍ",
     "ᶎ", "ᶏ", "ᶐ", "ᶑ", "ᶒ", "ᶓ", "ᶔ", "ᶕ", "ᶖ", "ᶗ", "ᶘ", "ᶙ", "ᶚ", "ᶛ",
     "ᶜ", "ᶝ", "ᶞ", "ᶟ", "ᶠ", "ᶡ", "ᶢ", "ᶣ", "ᶤ", "ᶥ", "ᶦ", "ᶧ", "ᶨ", "ᶩ",
     "ᶪ", "ᶫ", "ᶬ", "ᶭ", "ᶮ", "ᶯ", "ᶰ", "ᶱ", "ᶲ", "ᶳ", "ᶴ", "ᶵ", "ᶶ", "ᶷ",
     "ᶸ", "ᶹ", "ᶺ", "ᶻ", "ᶼ", "ᶽ", "ᶾ", "ᶿ", "U+1E00", "U+1E01", "U+1E02",
     "U+1E03", "U+1E04", "U+1E05", "U+1E06", "U+1E07", "U+1E08", "U+1E09",
     "U+1E0A", "U+1E0B", "U+1E0C", "U+1E0D", "U+1E0E", "U+1E0F", "U+1E10",
     "U+1E11", "U+1E12", "U+1E13", "U+1E14", "U+1E15", "U+1E16", "U+1E17",
     "U+1E18", "U+1E19", "U+1E1A", "U+1E1B", "U+1E1C", "U+1E1D", "U+1E1E",
     "U+1E1F", "U+1E20", "U+1E21", "U+1E22", "U+1E23", "U+1E24", "U+1E25",
     "U+1E26", "U+1E27", "U+1E28", "U+1E29", "U+1E2A", "U+1E2B", "U+1E2C",
     "U+1E2D", "U+1E2E", "U+1E2F", "U+1E30", "U+1E31", "U+1E32", "U+1E33",
     "U+1E34", "U+1E35", "U+1E36", "U+1E37", "U+1E38", "U+1E39", "U+1E3A",
     "U+1E3B", "U+1E3C", "U+1E3D", "U+1E3E", "U+1E3F", "U+1E40", "U+1E41",
     "U+1E42", "U+1E43", "U+1E44", "U+1E45", "U+1E46", "U+1E47", "U+1E48",
     "U+1E49", "U+1E4A", "U+1E4B", "U+1E4C", "U+1E4D", "U+1E4E", "U+1E4F",
     "U+1E50", "U+1E51", "U+1E52", "U+1E53", "U+1E54", "U+1E55", "U+1E56",
     "U+1E57", "U+1E58", "U+1E59", "U+1E5A", "U+1E5B", "U+1E5C", "U+1E5D",
     "U+1E5E", "U+1E5F", "U+1E60", "U+1E61", "U+1E62", "U+1E63", "U+1E64",
     "U+1E65", "U+1E66", "U+1E67", "U+1E68", "U+1E69", "U+1E6A", "U+1E6B",
     "U+1E6C", "U+1E6D", "U+1E6E", "U+1E6F", "U+1E70", "U+1E71", "U+1E72",
     "U+1E73", "U+1E74", "U+1E75", "U+1E76", "U+1E77", "U+1E78", "U+1E79",
     "U+1E7A", "U+1E7B", "U+1E7C", "U+1E7D", "U+1E7E", "U+1E7F", "Ẁ", "ẁ",
     "Ẃ", "ẃ", "Ẅ", "ẅ", "Ẇ", "ẇ", "Ẉ", "ẉ", "Ẋ", "ẋ", "Ẍ", "ẍ", "Ẏ", "ẏ",
     "Ẑ", "ẑ", "Ẓ", "ẓ", "Ẕ", "ẕ", "ẖ", "ẗ", "ẘ", "ẙ", "ẚ", "ẛ", "ẜ", "ẝ",
     "ẞ", "ẟ", "Ạ", "ạ", "Ả", "ả", "Ấ", "ấ", "Ầ", "ầ", "Ẩ", "ẩ", "Ẫ", "ẫ",
     "Ậ", "ậ", "Ắ", "ắ", "Ằ", "ằ", "Ẳ", "ẳ", "Ẵ", "ẵ", "Ặ", "ặ", "Ẹ", "ẹ",
     "Ẻ", "ẻ", "Ẽ", "ẽ", "Ế", "ế", "Ề", "ề", "Ể", "ể", "Ễ", "ễ", "Ệ", "ệ",
     "Ỉ", "ỉ", "Ị", "ị", "Ọ", "ọ", "Ỏ", "ỏ", "Ố", "ố", "Ồ", "ồ", "Ổ", "ổ",
     "Ỗ", "ỗ", "Ộ", "ộ", "Ớ", "ớ", "Ờ", "ờ", "Ở", "ở", "Ỡ", "ỡ", "Ợ", "ợ",
     "Ụ", "ụ", "Ủ", "ủ", "Ứ", "ứ", "Ừ", "ừ", "Ử", "ử", "Ữ", "ữ", "Ự", "ự",
     "Ỳ", "ỳ", "Ỵ", "ỵ", "Ỷ", "ỷ", "Ỹ", "ỹ", "Ỻ", "ỻ", "Ỽ", "ỽ", "Ỿ", "ỿ",
     "U+1F00", "U+1F01", "U+1F02", "U+1F03", "U+1F04", "U+1F05", "U+1F06",
     "U+1F07", "U+1F08", "U+1F09", "U+1F0A", "U+1F0B", "U+1F0C", "U+1F0D",
     "U+1F0E", "U+1F0F", "U+1F10", "U+1F11", "U+1F12", "U+1F13", "U+1F14",
     "U+1F15", "U+1F18", "U+1F19", "U+1F1A", "U+1F1B", "U+1F1C", "U+1F1D",
     "U+1F20", "U+1F21", "U+1F22", "U+1F23", "U+1F24", "U+1F25", "U+1F26",
     "U+1F27", "U+1F28", "U+1F29", "U+1F2A", "U+1F2B", "U+1F2C", "U+1F2D",
     "U+1F2E", "U+1F2F", "U+1F30", "U+1F31", "U+1F32", "U+1F33", "U+1F34",
     "U+1F35", "U+1F36", "U+1F37", "U+1F38", "U+1F39", "U+1F3A", "U+1F3B",
     "U+1F3C", "U+1F3D", "U+1F3E", "U+1F3F", "U+1F40", "U+1F41", "U+1F42",
     "U+1F43", "U+1F44", "U+1F45", "U+1F48", "U+1F49", "U+1F4A", "U+1F4B",
     "U+1F4C", "U+1F4D", "U+1F50", "U+1F51", "U+1F52", "U+1F53", "U+1F54",
     "U+1F55", "U+1F56", "U+1F57", "U+1F59", "U+1F5B", "U+1F5D", "U+1F5F",
     "U+1F60", "U+1F61", "U+1F62", "U+1F63", "U+1F64", "U+1F65", "U+1F66",
     "U+1F67", "U+1F68", "U+1F69", "U+1F6A", "U+1F6B", "U+1F6C", "U+1F6D",
     "U+1F6E", "U+1F6F", "U+1F70", "U+1F71", "U+1F72", "U+1F73", "U+1F74",
     "U+1F75", "U+1F76", "U+1F77", "U+1F78", "U+1F79", "U+1F7A", "U+1F7B",
     "U+1F7C", "U+1F7D", "ᾀ", "ᾁ", "ᾂ", "ᾃ", "ᾄ", "ᾅ", "ᾆ", "ᾇ", "ᾈ", "ᾉ",
     "ᾊ", "ᾋ", "ᾌ", "ᾍ", "ᾎ", "ᾏ", "ᾐ", "ᾑ", "ᾒ", "ᾓ", "ᾔ", "ᾕ", "ᾖ", "ᾗ",
     "ᾘ", "ᾙ", "ᾚ", "ᾛ", "ᾜ", "ᾝ", "ᾞ", "ᾟ", "ᾠ", "ᾡ", "ᾢ", "ᾣ", "ᾤ", "ᾥ",
     "ᾦ", "ᾧ", "ᾨ", "ᾩ", "ᾪ", "ᾫ", "ᾬ", "ᾭ", "ᾮ", "ᾯ", "ᾰ", "ᾱ", "ᾲ", "ᾳ",
     "ᾴ", "ᾶ", "ᾷ", "Ᾰ", "Ᾱ", "Ὰ", "Ά", "ᾼ", "ι", "ῂ", "ῃ", "ῄ", "ῆ", "ῇ",
     "Ὲ", "Έ", "Ὴ", "Ή", "ῌ", "ῐ", "ῑ", "ῒ", "ΐ", "ῖ", "ῗ", "Ῐ", "Ῑ", "Ὶ",
     "Ί", "ῠ", "ῡ", "ῢ", "ΰ", "ῤ", "ῥ", "ῦ", "ῧ", "Ῠ", "Ῡ", "Ὺ", "Ύ", "Ῥ",
     "ῲ", "ῳ", "ῴ", "ῶ", "ῷ", "Ὸ", "Ό", "Ὼ", "Ώ", "ῼ", "U+2071", "U+207F",
     "ₐ", "ₑ", "ₒ", "ₓ", "ₔ", "ₕ", "ₖ", "ₗ", "ₘ", "ₙ", "ₚ", "ₛ", "ₜ",
     "U+2102", "U+2107", "U+210A", "U+210B", "U+210C", "U+210D", "U+210E",
     "U+210F", "U+2110", "U+2111", "U+2112", "U+2113", "U+2115", "U+2119",
     "U+211A", "U+211B", "U+211C", "U+211D", "U+2124", "U+2126", "U+2128",
     "U+212A", "U+212B", "U+212C", "U+212D", "U+212F", "U+2130", "U+2131",
     "U+2132", "U+2133", "U+2134", "U+2139", "U+213C", "U+213D", "U+213E",
     "U+213F", "U+2145", "U+2146", "U+2147", "U+2148", "U+2149", "U+214E",
     "U+2160", "U+2161", "U+2162", "U+2163", "U+2164", "U+2165", "U+2166",
     "U+2167", "U+2168", "U+2169", "U+216A", "U+216B", "U+216C", "U+216D",
     "U+216E", "U+216F", "U+2170", "U+2171", "U+2172", "U+2173", "U+2174",
     "U+2175", "U+2176", "U+2177", "U+2178", "U+2179", "U+217A", "U+217B",
     "U+217C", "U+217D", "U+217E", "U+217F", "Ↄ", "ↄ", "Ⓐ", "Ⓑ", "Ⓒ", "Ⓓ",
     "Ⓔ", "Ⓕ", "Ⓖ", "Ⓗ", "Ⓘ", "Ⓙ", "Ⓚ", "Ⓛ", "Ⓜ", "Ⓝ", "Ⓞ", "Ⓟ", "Ⓠ", "Ⓡ",
     "Ⓢ", "Ⓣ", "Ⓤ", "Ⓥ", "Ⓦ", "Ⓧ", "Ⓨ", "Ⓩ", "ⓐ", "ⓑ", "ⓒ", "ⓓ", "ⓔ", "ⓕ",
     "ⓖ", "ⓗ", "ⓘ", "ⓙ", "ⓚ", "ⓛ", "ⓜ", "ⓝ", "ⓞ", "ⓟ", "ⓠ", "ⓡ", "ⓢ", "ⓣ",
     "ⓤ", "ⓥ", "ⓦ", "ⓧ", "ⓨ", "ⓩ", "U+2C00", "U+2C01", "U+2C02", "U+2C03",
     "U+2C04", "U+2C05", "U+2C06", "U+2C07", "U+2C08", "U+2C09", "U+2C0A",
     "U+2C0B", "U+2C0C", "U+2C0D", "U+2C0E", "U+2C0F", "U+2C10", "U+2C11",
     "U+2C12", "U+2C13", "U+2C14", "U+2C15", "U+2C16", "U+2C17", "U+2C18",
     "U+2C19", "U+2C1A", "U+2C1B", "U+2C1C", "U+2C1D", "U+2C1E", "U+2C1F",
     "U+2C20", "U+2C21", "U+2C22", "U+2C23", "U+2C24", "U+2C25", "U+2C26",
     "U+2C27", "U+2C28", "U+2C29", "U+2C2A", "U+2C2B", "U+2C2C", "U+2C2D",
     "U+2C2E", "U+2C2F", "U+2C30", "U+2C31", "U+2C32", "U+2C33", "U+2C34",
     "U+2C35", "U+2C36", "U+2C37", "U+2C38", "U+2C39", "U+2C3A", "U+2C3B",
     "U+2C3C", "U+2C3D", "U+2C3E", "U+2C3F", "U+2C40", "U+2C41", "U+2C42",
     "U+2C43", "U+2C44", "U+2C45", "U+2C46", "U+2C47", "U+2C48", "U+2C49",
     "U+2C4A", "U+2C4B", "U+2C4C", "U+2C4D", "U+2C4E", "U+2C4F", "U+2C50",
     "U+2C51", "U+2C52", "U+2C53", "U+2C54", "U+2C55", "U+2C56", "U+2C57",
     "U+2C58", "U+2C59", "U+2C5A", "U+2C5B", "U+2C5C", "U+2C5D", "U+2C5E",
     "U+2C5F", "U+2C60", "U+2C61", "U+2C62", "U+2C63", "U+2C64", "U+2C65",
     "U+2C66", "U+2C67", "U+2C68", "U+2C69", "U+2C6A", "U+2C6B", "U+2C6C",
     "U+2C6D", "U+2C6E", "U+2C6F", "U+2C70", "U+2C71", "U+2C72", "U+2C73",
     "U+2C74", "U+2C75", "U+2C76", "U+2C77", "U+2C78", "U+2C79", "U+2C7A",
     "U+2C7B", "U+2C7C", "U+2C7D", "U+2C7E", "U+2C7F", "Ⲁ", "ⲁ", "Ⲃ", "ⲃ",
     "Ⲅ", "ⲅ", "Ⲇ", "ⲇ", "Ⲉ", "ⲉ", "Ⲋ", "ⲋ", "Ⲍ", "ⲍ", "Ⲏ", "ⲏ", "Ⲑ", "ⲑ",
     "Ⲓ", "ⲓ", "Ⲕ", "ⲕ", "Ⲗ", "ⲗ", "Ⲙ", "ⲙ", "Ⲛ", "ⲛ", "Ⲝ", "ⲝ", "Ⲟ", "ⲟ",
     "Ⲡ", "ⲡ", "Ⲣ", "ⲣ", "Ⲥ", "ⲥ", "Ⲧ", "ⲧ", "Ⲩ", "ⲩ", "Ⲫ", "ⲫ", "Ⲭ", "ⲭ",
     "Ⲯ", "ⲯ", "Ⲱ", "ⲱ", "Ⲳ", "ⲳ", "Ⲵ", "ⲵ", "Ⲷ", "ⲷ", "Ⲹ", "ⲹ", "Ⲻ", "ⲻ",
     "Ⲽ", "ⲽ", "Ⲿ", "ⲿ", "Ⳁ", "ⳁ", "Ⳃ", "ⳃ", "Ⳅ", "ⳅ", "Ⳇ", "ⳇ", "Ⳉ", "ⳉ",
     "Ⳋ", "ⳋ", "Ⳍ", "ⳍ", "Ⳏ", "ⳏ", "Ⳑ", "ⳑ", "Ⳓ", "ⳓ", "Ⳕ", "ⳕ", "Ⳗ", "ⳗ",
     "Ⳙ", "ⳙ", "Ⳛ", "ⳛ", "Ⳝ", "ⳝ", "Ⳟ", "ⳟ", "Ⳡ", "ⳡ", "Ⳣ", "ⳣ", "ⳤ", "Ⳬ",
     "ⳬ", "Ⳮ", "ⳮ", "Ⳳ", "ⳳ", "U+2D00", "U+2D01", "U+2D02", "U+2D03",
     "U+2D04", "U+2D05", "U+2D06", "U+2D07", "U+2D08", "U+2D09", "U+2D0A",
     "U+2D0B", "U+2D0C", "U+2D0D", "U+2D0E", "U+2D0F", "U+2D10", "U+2D11",
     "U+2D12", "U+2D13", "U+2D14", "U+2D15", "U+2D16", "U+2D17", "U+2D18",
     "U+2D19", "U+2D1A", "U+2D1B", "U+2D1C", "U+2D1D", "U+2D1E", "U+2D1F",
     "U+2D20", "U+2D21", "U+2D22", "U+2D23", "U+2D24", "U+2D25", "U+2D27",
     "U+2D2D", "U+A640", "U+A641", "U+A642", "U+A643", "U+A644", "U+A645",
     "U+A646", "U+A647", "U+A648", "U+A649", "U+A64A", "U+A64B", "U+A64C",
     "U+A64D", "U+A64E", "U+A64F", "U+A650", "U+A651", "U+A652", "U+A653",
     "U+A654", "U+A655", "U+A656", "U+A657", "U+A658", "U+A659", "U+A65A",
     "U+A65B", "U+A65C", "U+A65D", "U+A65E", "U+A65F", "U+A660", "U+A661",
     "U+A662", "U+A663", "U+A664", "U+A665", "U+A666", "U+A667", "U+A668",
     "U+A669", "U+A66A", "U+A66B", "U+A66C", "U+A66D", "Ꚁ", "ꚁ", "Ꚃ", "ꚃ",
     "Ꚅ", "ꚅ", "Ꚇ", "ꚇ", "Ꚉ", "ꚉ", "Ꚋ", "ꚋ", "Ꚍ", "ꚍ", "Ꚏ", "ꚏ", "Ꚑ", "ꚑ",
     "Ꚓ", "ꚓ", "Ꚕ", "ꚕ", "Ꚗ", "ꚗ", "Ꚙ", "ꚙ", "Ꚛ", "ꚛ", "ꚜ", "ꚝ", "U+A722",
     "U+A723", "U+A724", "U+A725", "U+A726", "U+A727", "U+A728", "U+A729",
     "U+A72A", "U+A72B", "U+A72C", "U+A72D", "U+A72E", "U+A72F", "U+A730",
     "U+A731", "U+A732", "U+A733", "U+A734", "U+A735", "U+A736", "U+A737",
     "U+A738", "U+A739", "U+A73A", "U+A73B", "U+A73C", "U+A73D", "U+A73E",
     "U+A73F", "U+A740", "U+A741", "U+A742", "U+A743", "U+A744", "U+A745",
     "U+A746", "U+A747", "U+A748", "U+A749", "U+A74A", "U+A74B", "U+A74C",
     "U+A74D", "U+A74E", "U+A74F", "U+A750", "U+A751", "U+A752", "U+A753",
     "U+A754", "U+A755", "U+A756", "U+A757", "U+A758", "U+A759", "U+A75A",
     "U+A75B", "U+A75C", "U+A75D", "U+A75E", "U+A75F", "U+A760", "U+A761",
     "U+A762", "U+A763", "U+A764", "U+A765", "U+A766", "U+A767", "U+A768",
     "U+A769", "U+A76A", "U+A76B", "U+A76C", "U+A76D", "U+A76E", "U+A76F",
     "U+A770", "U+A771", "U+A772", "U+A773", "U+A774", "U+A775", "U+A776",
     "U+A777", "U+A778", "U+A779", "U+A77A", "U+A77B", "U+A77C", "U+A77D",
     "U+A77E", "U+A77F", "Ꞁ", "ꞁ", "Ꞃ", "ꞃ", "Ꞅ", "ꞅ", "Ꞇ", "ꞇ", "Ꞌ", "ꞌ",
     "Ɥ", "ꞎ", "Ꞑ", "ꞑ", "Ꞓ", "ꞓ", "ꞔ", "ꞕ", "Ꞗ", "ꞗ", "Ꞙ", "ꞙ", "Ꞛ", "ꞛ",
     "Ꞝ", "ꞝ", "Ꞟ", "ꞟ", "Ꞡ", "ꞡ", "Ꞣ", "ꞣ", "Ꞥ", "ꞥ", "Ꞧ", "ꞧ", "Ꞩ", "ꞩ",
     "Ɦ", "Ɜ", "Ɡ", "Ɬ", "Ɪ", "ꞯ", "Ʞ", "Ʇ", "Ʝ", "Ꭓ", "Ꞵ", "ꞵ", "Ꞷ", "ꞷ",
     "Ꞹ", "ꞹ", "Ꞻ", "ꞻ", "Ꞽ", "ꞽ", "Ꞿ", "ꞿ", "Ꟁ", "ꟁ", "Ꟃ", "ꟃ", "Ꞔ", "Ʂ",
     "Ᶎ", "Ꟈ", "ꟈ", "Ꟊ", "ꟊ", "Ɤ", "Ꟍ", "ꟍ", "꟎", "꟏", "Ꟑ", "ꟑ", "꟒", "ꟓ",
     "꟔", "ꟕ", "Ꟗ", "ꟗ", "Ꟙ", "ꟙ", "Ꟛ", "ꟛ", "Ƛ", "꟱", "ꟲ", "ꟳ", "ꟴ", "Ꟶ",
     "ꟶ", "ꟸ", "ꟹ", "ꟺ", "U+AB30", "U+AB31", "U+AB32", "U+AB33", "U+AB34",
     "U+AB35", "U+AB36", "U+AB37", "U+AB38", "U+AB39", "U+AB3A", "U+AB3B",
     "U+AB3C", "U+AB3D", "U+AB3E", "U+AB3F", "U+AB40", "U+AB41", "U+AB42",
     "U+AB43", "U+AB44", "U+AB45", "U+AB46", "U+AB47", "U+AB48", "U+AB49",
     "U+AB4A", "U+AB4B", "U+AB4C", "U+AB4D", "U+AB4E", "U+AB4F", "U+AB50",
     "U+AB51", "U+AB52", "U+AB53", "U+AB54", "U+AB55", "U+AB56", "U+AB57",
     "U+AB58", "U+AB59", "U+AB5A", "U+AB5C", "U+AB5D", "U+AB5E", "U+AB5F",
     "U+AB60", "U+AB61", "U+AB62", "U+AB63", "U+AB64", "U+AB65", "U+AB66",
     "U+AB67", "U+AB68", "U+AB69", "U+AB70", "U+AB71", "U+AB72", "U+AB73",
     "U+AB74", "U+AB75", "U+AB76", "U+AB77", "U+AB78", "U+AB79", "U+AB7A",
     "U+AB7B", "U+AB7C", "U+AB7D", "U+AB7E", "U+AB7F", "ꮀ", "ꮁ", "ꮂ", "ꮃ",
     "ꮄ", "ꮅ", "ꮆ", "ꮇ", "ꮈ", "ꮉ", "ꮊ", "ꮋ", "ꮌ", "ꮍ", "ꮎ", "ꮏ", "ꮐ", "ꮑ",
     "ꮒ", "ꮓ", "ꮔ", "ꮕ", "ꮖ", "ꮗ", "ꮘ", "ꮙ", "ꮚ", "ꮛ", "ꮜ", "ꮝ", "ꮞ", "ꮟ",
     "ꮠ", "ꮡ", "ꮢ", "ꮣ", "ꮤ", "ꮥ", "ꮦ", "ꮧ", "ꮨ", "ꮩ", "ꮪ", "ꮫ", "ꮬ", "ꮭ",
     "ꮮ", "ꮯ", "ꮰ", "ꮱ", "ꮲ", "ꮳ", "ꮴ", "ꮵ", "ꮶ", "ꮷ", "ꮸ", "ꮹ", "ꮺ", "ꮻ",
     "ꮼ", "ꮽ", "ꮾ", "ꮿ", "U+FB00", "U+FB01", "U+FB02", "U+FB03", "U+FB04",
     "U+FB05", "U+FB06", "U+FB13", "U+FB14", "U+FB15", "U+FB16", "U+FB17",
     "U+FF21", "U+FF22", "U+FF23", "U+FF24", "U+FF25", "U+FF26", "U+FF27",
     "U+FF28", "U+FF29", "U+FF2A", "U+FF2B", "U+FF2C", "U+FF2D", "U+FF2E",
     "U+FF2F", "U+FF30", "U+FF31", "U+FF32", "U+FF33", "U+FF34", "U+FF35",
     "U+FF36", "U+FF37", "U+FF38", "U+FF39", "U+FF3A", "U+FF41", "U+FF42",
     "U+FF43", "U+FF44", "U+FF45", "U+FF46", "U+FF47", "U+FF48", "U+FF49",
     "U+FF4A", "U+FF4B", "U+FF4C", "U+FF4D", "U+FF4E", "U+FF4F", "U+FF50",
     "U+FF51", "U+FF52", "U+FF53", "U+FF54", "U+FF55", "U+FF56", "U+FF57",
     "U+FF58", "U+FF59", "U+FF5A", "U+10400", "U+10401", "U+10402", "U+10403",
     "U+10404", "U+10405", "U+10406", "U+10407", "U+10408", "U+10409",
     "U+1040A", "U+1040B", "U+1040C", "U+1040D", "U+1040E", "U+1040F",
     "U+10410", "U+10411", "U+10412", "U+10413", "U+10414", "U+10415",
     "U+10416", "U+10417", "U+10418", "U+10419", "U+1041A", "U+1041B",
     "U+1041C", "U+1041D", "U+1041E", "U+1041F", "U+10420", "U+10421",
     "U+10422", "U+10423", "U+10424", "U+10425", "U+10426", "U+10427",
     "U+10428", "U+10429", "U+1042A", "U+1042B", "U+1042C", "U+1042D",
     "U+1042E", "U+1042F", "U+10430", "U+10431", "U+10432", "U+10433",
     "U+10434", "U+10435", "U+10436", "U+10437", "U+10438", "U+10439",
     "U+1043A", "U+1043B", "U+1043C", "U+1043D", "U+1043E", "U+1043F",
     "U+10440", "U+10441", "U+10442", "U+10443", "U+10444", "U+10445",
     "U+10446", "U+10447", "U+10448", "U+10449", "U+1044A", "U+1044B",
     "U+1044C", "U+1044D", "U+1044E", "U+1044F", "U+104B0", "U+104B1",
     "U+104B2", "U+104B3", "U+104B4", "U+104B5", "U+104B6", "U+104B7",
     "U+104B8", "U+104B9", "U+104BA", "U+104BB", "U+104BC", "U+104BD",
     "U+104BE", "U+104BF", "U+104C0", "U+104C1", "U+104C2", "U+104C3",
     "U+104C4", "U+104C5", "U+104C6", "U+104C7", "U+104C8", "U+104C9",
     "U+104CA", "U+104CB", "U+104CC", "U+104CD", "U+104CE", "U+104CF",
     "U+104D0", "U+104D1", "U+104D2", "U+104D3", "U+104D8", "U+104D9",
     "U+104DA", "U+104DB", "U+104DC", "U+104DD", "U+104DE", "U+104DF",
     "U+104E0", "U+104E1", "U+104E2", "U+104E3", "U+104E4", "U+104E5",
     "U+104E6", "U+104E7", "U+104E8", "U+104E9", "U+104EA", "U+104EB",
     "U+104EC", "U+104ED", "U+104EE", "U+104EF", "U+104F0", "U+104F1",
     "U+104F2", "U+104F3", "U+104F4", "U+104F5", "U+104F6", "U+104F7",
     "U+104F8", "U+104F9", "U+104FA", "U+104FB", "U+10570", "U+10571",
     "U+10572", "U+10573", "U+10574", "U+10575", "U+10576", "U+10577",
     "U+10578", "U+10579", "U+1057A", "U+1057C", "U+1057D", "U+1057E",
     "U+1057F", "U+10580", "U+10581", "U+10582", "U+10583", "U+10584",
     "U+10585", "U+10586", "U+10587", "U+10588", "U+10589", "U+1058A",
     "U+1058C", "U+1058D", "U+1058E", "U+1058F", "U+10590", "U+10591",
     "U+10592", "U+10594", "U+10595", "U+10597", "U+10598", "U+10599",
     "U+1059A", "U+1059B", "U+1059C", "U+1059D", "U+1059E", "U+1059F",
     "U+105A0", "U+105A1", "U+105A3", "U+105A4", "U+105A5", "U+105A6",
     "U+105A7", "U+105A8", "U+105A9", "U+105AA", "U+105AB", "U+105AC",
     "U+105AD", "U+105AE", "U+105AF", "U+105B0", "U+105B1", "U+105B3",
     "U+105B4", "U+105B5", "U+105B6", "U+105B7", "U+105B8", "U+105B9",
     "U+105BB", "U+105BC", "U+10780", "U+10783", "U+10784", "U+10785",
     "U+10787", "U+10788", "U+10789", "U+1078A", "U+1078B", "U+1078C",
     "U+1078D", "U+1078E", "U+1078F", "U+10790", "U+10791", "U+10792",
     "U+10793", "U+10794", "U+10795", "U+10796", "U+10797", "U+10798",
     "U+10799", "U+1079A", "U+1079B", "U+1079C", "U+1079D", "U+1079E",
     "U+1079F", "U+107A0", "U+107A1", "U+107A2", "U+107A3", "U+107A4",
     "U+107A5", "U+107A6", "U+107A7", "U+107A8", "U+107A9", "U+107AA",
     "U+107AB", "U+107AC", "U+107AD", "U+107AE", "U+107AF", "U+107B0",
     "U+107B2", "U+107B3", "U+107B4", "U+107B5", "U+107B6", "U+107B7",
     "U+107B8", "U+107B9", "U+107BA", "U+10C80", "U+10C81", "U+10C82",
     "U+10C83", "U+10C84", "U+10C85", "U+10C86", "U+10C87", "U+10C88",
     "U+10C89", "U+10C8A", "U+10C8B", "U+10C8C", "U+10C8D", "U+10C8E",
     "U+10C8F", "U+10C90", "U+10C91", "U+10C92", "U+10C93", "U+10C94",
     "U+10C95", "U+10C96", "U+10C97", "U+10C98", "U+10C99", "U+10C9A",
     "U+10C9B", "U+10C9C", "U+10C9D", "U+10C9E", "U+10C9F", "U+10CA0",
     "U+10CA1", "U+10CA2", "U+10CA3", "U+10CA4", "U+10CA5", "U+10CA6",
     "U+10CA7", "U+10CA8", "U+10CA9", "U+10CAA", "U+10CAB", "U+10CAC",
     "U+10CAD", "U+10CAE", "U+10CAF", "U+10CB0", "U+10CB1", "U+10CB2",
     "U+10CC0", "U+10CC1", "U+10CC2", "U+10CC3", "U+10CC4", "U+10CC5",
     "U+10CC6", "U+10CC7", "U+10CC8", "U+10CC9", "U+10CCA", "U+10CCB",
     "U+10CCC", "U+10CCD", "U+10CCE", "U+10CCF", "U+10CD0", "U+10CD1",
     "U+10CD2", "U+10CD3", "U+10CD4", "U+10CD5", "U+10CD6", "U+10CD7",
     "U+10CD8", "U+10CD9", "U+10CDA", "U+10CDB", "U+10CDC", "U+10CDD",
     "U+10CDE", "U+10CDF", "U+10CE0", "U+10CE1", "U+10CE2", "U+10CE3",
     "U+10CE4", "U+10CE5", "U+10CE6", "U+10CE7", "U+10CE8", "U+10CE9",
     "U+10CEA", "U+10CEB", "U+10CEC", "U+10CED", "U+10CEE", "U+10CEF",
     "U+10CF0", "U+10CF1", "U+10CF2", "U+10D50", "U+10D51", "U+10D52",
     "U+10D53", "U+10D54", "U+10D55", "U+10D56", "U+10D57", "U+10D58",
     "U+10D59", "U+10D5A", "U+10D5B", "U+10D5C", "U+10D5D", "U+10D5E",
     "U+10D5F", "U+10D60", "U+10D61", "U+10D62", "U+10D63", "U+10D64",
     "U+10D65", "U+10D70", "U+10D71", "U+10D72", "U+10D73", "U+10D74",
     "U+10D75", "U+10D76", "U+10D77", "U+10D78", "U+10D79", "U+10D7A",
     "U+10D7B", "U+10D7C", "U+10D7D", "U+10D7E", "U+10D7F", "U+10D80",
     "U+10D81", "U+10D82", "U+10D83", "U+10D84", "U+10D85", "U+118A0",
     "U+118A1", "U+118A2", "U+118A3", "U+118A4", "U+118A5", "U+118A6",
     "U+118A7", "U+118A8", "U+118A9", "U+118AA", "U+118AB", "U+118AC",
     "U+118AD", "U+118AE", "U+118AF", "U+118B0", "U+118B1", "U+118B2",
     "U+118B3", "U+118B4", "U+118B5", "U+118B6", "U+118B7", "U+118B8",
     "U+118B9", "U+118BA", "U+118BB", "U+118BC", "U+118BD", "U+118BE",
     "U+118BF", "U+118C0", "U+118C1", "U+118C2", "U+118C3", "U+118C4",
     "U+118C5", "U+118C6", "U+118C7", "U+118C8", "U+118C9", "U+118CA",
     "U+118CB", "U+118CC", "U+118CD", "U+118CE", "U+118CF", "U+118D0",
     "U+118D1", "U+118D2", "U+118D3", "U+118D4", "U+118D5", "U+118D6",
     "U+118D7", "U+118D8", "U+118D9", "U+118DA", "U+118DB", "U+118DC",
     "U+118DD", "U+118DE", "U+118DF", "U+16E40", "U+16E41", "U+16E42",
     "U+16E43", "U+16E44", "U+16E45", "U+16E46", "U+16E47", "U+16E48",
     "U+16E49", "U+16E4A", "U+16E4B", "U+16E4C", "U+16E4D", "U+16E4E",
     "U+16E4F", "U+16E50", "U+16E51", "U+16E52", "U+16E53", "U+16E54",
     "U+16E55", "U+16E56", "U+16E57", "U+16E58", "U+16E59", "U+16E5A",
     "U+16E5B", "U+16E5C", "U+16E5D", "U+16E5E", "U+16E5F", "U+16E60",
     "U+16E61", "U+16E62", "U+16E63", "U+16E64", "U+16E65", "U+16E66",
     "U+16E67", "U+16E68", "U+16E69", "U+16E6A", "U+16E6B", "U+16E6C",
     "U+16E6D", "U+16E6E", "U+16E6F", "U+16E70", "U+16E71", "U+16E72",
     "U+16E73", "U+16E74", "U+16E75", "U+16E76", "U+16E77", "U+16E78",
     "U+16E79", "U+16E7A", "U+16E7B", "U+16E7C", "U+16E7D", "U+16E7E",
     "U+16E7F", "U+16EA0", "U+16EA1", "U+16EA2", "U+16EA3", "U+16EA4",
     "U+16EA5", "U+16EA6", "U+16EA7", "U+16EA8", "U+16EA9", "U+16EAA",
     "U+16EAB", "U+16EAC", "U+16EAD", "U+16EAE", "U+16EAF", "U+16EB0",
     "U+16EB1", "U+16EB2", "U+16EB3", "U+16EB4", "U+16EB5", "U+16EB6",
     "U+16EB7", "U+16EB8", "U+16EBB", "U+16EBC", "U+16EBD", "U+16EBE",
     "U+16EBF", "U+16EC0", "U+16EC1", "U+16EC2", "U+16EC3", "U+16EC4",
     "U+16EC5", "U+16EC6", "U+16EC7", "U+16EC8", "U+16EC9", "U+16ECA",
     "U+16ECB", "U+16ECC", "U+16ECD", "U+16ECE", "U+16ECF", "U+16ED0",
     "U+16ED1", "U+16ED2", "U+16ED3", "U+1D400", "U+1D401", "U+1D402",
     "U+1D403", "U+1D404", "U+1D405", "U+1D406", "U+1D407", "U+1D408",
     "U+1D409", "U+1D40A", "U+1D40B", "U+1D40C", "U+1D40D", "U+1D40E",
     "U+1D40F", "U+1D410", "U+1D411", "U+1D412", "U+1D413", "U+1D414",
     "U+1D415", "U+1D416", "U+1D417", "U+1D418", "U+1D419", "U+1D41A",
     "U+1D41B", "U+1D41C", "U+1D41D", "U+1D41E", "U+1D41F", "U+1D420",
     "U+1D421", "U+1D422", "U+1D423", "U+1D424", "U+1D425", "U+1D426",
     "U+1D427", "U+1D428", "U+1D429", "U+1D42A", "U+1D42B", "U+1D42C",
     "U+1D42D", "U+1D42E", "U+1D42F", "U+1D430", "U+1D431", "U+1D432",
     "U+1D433", "U+1D434", "U+1D435", "U+1D436", "U+1D437", "U+1D438",
     "U+1D439", "U+1D43A", "U+1D43B", "U+1D43C", "U+1D43D", "U+1D43E",
     "U+1D43F", "U+1D440", "U+1D441", "U+1D442", "U+1D443", "U+1D444",
     "U+1D445", "U+1D446", "U+1D447", "U+1D448", "U+1D449", "U+1D44A",
     "U+1D44B", "U+1D44C", "U+1D44D", "U+1D44E", "U+1D44F", "U+1D450",
     "U+1D451", "U+1D452", "U+1D453", "U+1D454", "U+1D456", "U+1D457",
     "U+1D458", "U+1D459", "U+1D45A", "U+1D45B", "U+1D45C", "U+1D45D",
     "U+1D45E", "U+1D45F", "U+1D460", "U+1D461", "U+1D462", "U+1D463",
     "U+1D464", "U+1D465", "U+1D466", "U+1D467", "U+1D468", "U+1D469",
     "U+1D46A", "U+1D46B", "U+1D46C", "U+1D46D", "U+1D46E", "U+1D46F",
     "U+1D470", "U+1D471", "U+1D472", "U+1D473", "U+1D474", "U+1D475",
     "U+1D476", "U+1D477", "U+1D478", "U+1D479", "U+1D47A", "U+1D47B",
     "U+1D47C", "U+1D47D", "U+1D47E", "U+1D47F", "U+1D480", "U+1D481",
     "U+1D482", "U+1D483", "U+1D484", "U+1D485", "U+1D486", "U+1D487",
     "U+1D488", "U+1D489", "U+1D48A", "U+1D48B", "U+1D48C", "U+1D48D",
     "U+1D48E", "U+1D48F", "U+1D490", "U+1D491", "U+1D492", "U+1D493",
     "U+1D494", "U+1D495", "U+1D496", "U+1D497", "U+1D498", "U+1D499",
     "U+1D49A", "U+1D49B", "U+1D49C", "U+1D49E", "U+1D49F", "U+1D4A2",
     "U+1D4A5", "U+1D4A6", "U+1D4A9", "U+1D4AA", "U+1D4AB", "U+1D4AC",
     "U+1D4AE", "U+1D4AF", "U+1D4B0", "U+1D4B1", "U+1D4B2", "U+1D4B3",
     "U+1D4B4", "U+1D4B5", "U+1D4B6", "U+1D4B7", "U+1D4B8", "U+1D4B9",
     "U+1D4BB", "U+1D4BD", "U+1D4BE", "U+1D4BF", "U+1D4C0", "U+1D4C1",
     "U+1D4C2", "U+1D4C3", "U+1D4C5", "U+1D4C6", "U+1D4C7", "U+1D4C8",
     "U+1D4C9", "U+1D4CA", "U+1D4CB", "U+1D4CC", "U+1D4CD", "U+1D4CE",
     "U+1D4CF", "U+1D4D0", "U+1D4D1", "U+1D4D2", "U+1D4D3", "U+1D4D4",
     "U+1D4D5", "U+1D4D6", "U+1D4D7", "U+1D4D8", "U+1D4D9", "U+1D4DA",
     "U+1D4DB", "U+1D4DC", "U+1D4DD", "U+1D4DE", "U+1D4DF", "U+1D4E0",
     "U+1D4E1", "U+1D4E2", "U+1D4E3", "U+1D4E4", "U+1D4E5", "U+1D4E6",
     "U+1D4E7", "U+1D4E8", "U+1D4E9", "U+1D4EA", "U+1D4EB", "U+1D4EC",
     "U+1D4ED", "U+1D4EE", "U+1D4EF", "U+1D4F0", "U+1D4F1", "U+1D4F2",
     "U+1D4F3", "U+1D4F4", "U+1D4F5", "U+1D4F6", "U+1D4F7", "U+1D4F8",
     "U+1D4F9", "U+1D4FA", "U+1D4FB", "U+1D4FC", "U+1D4FD", "U+1D4FE",
     "U+1D4FF", "U+1D500", "U+1D501", "U+1D502", "U+1D503", "U+1D504",
     "U+1D505", "U+1D507", "U+1D508", "U+1D509", "U+1D50A", "U+1D50D",
     "U+1D50E", "U+1D50F", "U+1D510", "U+1D511", "U+1D512", "U+1D513",
     "U+1D514", "U+1D516", "U+1D517", "U+1D518", "U+1D519", "U+1D51A",
     "U+1D51B", "U+1D51C", "U+1D51E", "U+1D51F", "U+1D520", "U+1D521",
     "U+1D522", "U+1D523", "U+1D524", "U+1D525", "U+1D526", "U+1D527",
     "U+1D528", "U+1D529", "U+1D52A", "U+1D52B", "U+1D52C", "U+1D52D",
     "U+1D52E", "U+1D52F", "U+1D530", "U+1D531", "U+1D532", "U+1D533",
     "U+1D534", "U+1D535", "U+1D536", "U+1D537", "U+1D538", "U+1D539",
     "U+1D53B", "U+1D53C", "U+1D53D", "U+1D53E", "U+1D540", "U+1D541",
     "U+1D542", "U+1D543", "U+1D544", "U+1D546", "U+1D54A", "U+1D54B",
     "U+1D54C", "U+1D54D", "U+1D54E", "U+1D54F", "U+1D550", "U+1D552",
     "U+1D553", "U+1D554", "U+1D555", "U+1D556", "U+1D557", "U+1D558",
     "U+1D559", "U+1D55A", "U+1D55B", "U+1D55C", "U+1D55D", "U+1D55E",
     "U+1D55F", "U+1D560", "U+1D561", "U+1D562", "U+1D563", "U+1D564",
     "U+1D565", "U+1D566", "U+1D567", "U+1D568", "U+1D569", "U+1D56A",
     "U+1D56B", "U+1D56C", "U+1D56D", "U+1D56E", "U+1D56F", "U+1D570",
     "U+1D571", "U+1D572", "U+1D573", "U+1D574", "U+1D575", "U+1D576",
     "U+1D577", "U+1D578", "U+1D579", "U+1D57A", "U+1D57B", "U+1D57C",
     "U+1D57D", "U+1D57E", "U+1D57F", "U+1D580", "U+1D581", "U+1D582",
     "U+1D583", "U+1D584", "U+1D585", "U+1D586", "U+1D587", "U+1D588",
     "U+1D589", "U+1D58A", "U+1D58B", "U+1D58C", "U+1D58D", "U+1D58E",
     "U+1D58F", "U+1D590", "U+1D591", "U+1D592", "U+1D593", "U+1D594",
     "U+1D595", "U+1D596", "U+1D597", "U+1D598", "U+1D599", "U+1D59A",
     "U+1D59B", "U+1D59C", "U+1D59D", "U+1D59E", "U+1D59F", "U+1D5A0",
     "U+1D5A1", "U+1D5A2", "U+1D5A3", "U+1D5A4", "U+1D5A5", "U+1D5A6",
     "U+1D5A7", "U+1D5A8", "U+1D5A9", "U+1D5AA", "U+1D5AB", "U+1D5AC",
     "U+1D5AD", "U+1D5AE", "U+1D5AF", "U+1D5B0", "U+1D5B1", "U+1D5B2",
     "U+1D5B3", "U+1D5B4", "U+1D5B5", "U+1D5B6", "U+1D5B7", "U+1D5B8",
     "U+1D5B9", "U+1D5BA", "U+1D5BB", "U+1D5BC", "U+1D5BD", "U+1D5BE",
     "U+1D5BF", "U+1D5C0", "U+1D5C1", "U+1D5C2", "U+1D5C3", "U+1D5C4",
     "U+1D5C5", "U+1D5C6", "U+1D5C7", "U+1D5C8", "U+1D5C9", "U+1D5CA",
     "U+1D5CB", "U+1D5CC", "U+1D5CD", "U+1D5CE", "U+1D5CF", "U+1D5D0",
     "U+1D5D1", "U+1D5D2", "U+1D5D3", "U+1D5D4", "U+1D5D5", "U+1D5D6",
     "U+1D5D7", "U+1D5D8", "U+1D5D9", "U+1D5DA", "U+1D5DB", "U+1D5DC",
     "U+1D5DD", "U+1D5DE", "U+1D5DF", "U+1D5E0", "U+1D5E1", "U+1D5E2",
     "U+1D5E3", "U+1D5E4", "U+1D5E5", "U+1D5E6", "U+1D5E7", "U+1D5E8",
     "U+1D5E9", "U+1D5EA", "U+1D5EB", "U+1D5EC", "U+1D5ED", "U+1D5EE",
     "U+1D5EF", "U+1D5F0", "U+1D5F1", "U+1D5F2", "U+1D5F3", "U+1D5F4",
     "U+1D5F5", "U+1D5F6", "U+1D5F7", "U+1D5F8", "U+1D5F9", "U+1D5FA",
     "U+1D5FB", "U+1D5FC", "U+1D5FD", "U+1D5FE", "U+1D5FF", "U+1D600",
     "U+1D601", "U+1D602", "U+1D603", "U+1D604", "U+1D605", "U+1D606",
     "U+1D607", "U+1D608", "U+1D609", "U+1D60A", "U+1D60B", "U+1D60C",
     "U+1D60D", "U+1D60E", "U+1D60F", "U+1D610", "U+1D611", "U+1D612",
     "U+1D613", "U+1D614", "U+1D615", "U+1D616", "U+1D617", "U+1D618",
     "U+1D619", "U+1D61A", "U+1D61B", "U+1D61C", "U+1D61D", "U+1D61E",
     "U+1D61F", "U+1D620", "U+1D621", "U+1D622", "U+1D623", "U+1D624",
     "U+1D625", "U+1D626", "U+1D627", "U+1D628", "U+1D629", "U+1D62A",
     "U+1D62B", "U+1D62C", "U+1D62D", "U+1D62E", "U+1D62F", "U+1D630",
     "U+1D631", "U+1D632", "U+1D633", "U+1D634", "U+1D635", "U+1D636",
     "U+1D637", "U+1D638", "U+1D639", "U+1D63A", "U+1D63B", "U+1D63C",
     "U+1D63D", "U+1D63E", "U+1D63F", "U+1D640", "U+1D641", "U+1D642",
     "U+1D643", "U+1D644", "U+1D645", "U+1D646", "U+1D647", "U+1D648",
     "U+1D649", "U+1D64A", "U+1D64B", "U+1D64C", "U+1D64D", "U+1D64E",
     "U+1D64F", "U+1D650", "U+1D651", "U+1D652", "U+1D653", "U+1D654",
     "U+1D655", "U+1D656", "U+1D657", "U+1D658", "U+1D659", "U+1D65A",
     "U+1D65B", "U+1D65C", "U+1D65D", "U+1D65E", "U+1D65F", "U+1D660",
     "U+1D661", "U+1D662", "U+1D663", "U+1D664", "U+1D665", "U+1D666",
     "U+1D667", "U+1D668", "U+1D669", "U+1D66A", "U+1D66B", "U+1D66C",
     "U+1D66D", "U+1D66E", "U+1D66F", "U+1D670", "U+1D671", "U+1D672",
     "U+1D673", "U+1D674", "U+1D675", "U+1D676", "U+1D677", "U+1D678",
     "U+1D679", "U+1D67A", "U+1D67B", "U+1D67C", "U+1D67D", "U+1D67E",
     "U+1D67F", "U+1D680", "U+1D681", "U+1D682", "U+1D683", "U+1D684",
     "U+1D685", "U+1D686", "U+1D687", "U+1D688", "U+1D689", "U+1D68A",
     "U+1D68B", "U+1D68C", "U+1D68D", "U+1D68E", "U+1D68F", "U+1D690",
     "U+1D691", "U+1D692", "U+1D693", "U+1D694", "U+1D695", "U+1D696",
     "U+1D697", "U+1D698", "U+1D699", "U+1D69A", "U+1D69B", "U+1D69C",
     "U+1D69D", "U+1D69E", "U+1D69F", "U+1D6A0", "U+1D6A1", "U+1D6A2",
     "U+1D6A3", "U+1D6A4", "U+1D6A5", "U+1D6A8", "U+1D6A9", "U+1D6AA",
     "U+1D6AB", "U+1D6AC", "U+1D6AD", "U+1D6AE", "U+1D6AF", "U+1D6B0",
     "U+1D6B1", "U+1D6B2", "U+1D6B3", "U+1D6B4", "U+1D6B5", "U+1D6B6",
     "U+1D6B7", "U+1D6B8", "U+1D6B9", "U+1D6BA", "U+1D6BB", "U+1D6BC",
     "U+1D6BD", "U+1D6BE", "U+1D6BF", "U+1D6C0", "U+1D6C2", "U+1D6C3",
     "U+1D6C4", "U+1D6C5", "U+1D6C6", "U+1D6C7", "U+1D6C8", "U+1D6C9",
     "U+1D6CA", "U+1D6CB", "U+1D6CC", "U+1D6CD", "U+1D6CE", "U+1D6CF",
     "U+1D6D0", "U+1D6D1", "U+1D6D2", "U+1D6D3", "U+1D6D4", "U+1D6D5",
     "U+1D6D6", "U+1D6D7", "U+1D6D8", "U+1D6D9", "U+1D6DA", "U+1D6DC",
     "U+1D6DD", "U+1D6DE", "U+1D6DF", "U+1D6E0", "U+1D6E1", "U+1D6E2",
     "U+1D6E3", "U+1D6E4", "U+1D6E5", "U+1D6E6", "U+1D6E7", "U+1D6E8",
     "U+1D6E9", "U+1D6EA", "U+1D6EB", "U+1D6EC", "U+1D6ED", "U+1D6EE",
     "U+1D6EF", "U+1D6F0", "U+1D6F1", "U+1D6F2", "U+1D6F3", "U+1D6F4",
     "U+1D6F5", "U+1D6F6", "U+1D6F7", "U+1D6F8", "U+1D6F9", "U+1D6FA",
     "U+1D6FC", "U+1D6FD", "U+1D6FE", "U+1D6FF", "U+1D700", "U+1D701",
     "U+1D702", "U+1D703", "U+1D704", "U+1D705", "U+1D706", "U+1D707",
     "U+1D708", "U+1D709", "U+1D70A", "U+1D70B", "U+1D70C", "U+1D70D",
     "U+1D70E", "U+1D70F", "U+1D710", "U+1D711", "U+1D712", "U+1D713",
     "U+1D714", "U+1D716", "U+1D717", "U+1D718", "U+1D719", "U+1D71A",
     "U+1D71B", "U+1D71C", "U+1D71D", "U+1D71E", "U+1D71F", "U+1D720",
     "U+1D721", "U+1D722", "U+1D723", "U+1D724", "U+1D725", "U+1D726",
     "U+1D727", "U+1D728", "U+1D729", "U+1D72A", "U+1D72B", "U+1D72C",
     "U+1D72D", "U+1D72E", "U+1D72F", "U+1D730", "U+1D731", "U+1D732",
     "U+1D733", "U+1D734", "U+1D736", "U+1D737", "U+1D738", "U+1D739",
     "U+1D73A", "U+1D73B", "U+1D73C", "U+1D73D", "U+1D73E", "U+1D73F",
     "U+1D740", "U+1D741", "U+1D742", "U+1D743", "U+1D744", "U+1D745",
     "U+1D746", "U+1D747", "U+1D748", "U+1D749", "U+1D74A", "U+1D74B",
     "U+1D74C", "U+1D74D", "U+1D74E", "U+1D750", "U+1D751", "U+1D752",
     "U+1D753", "U+1D754", "U+1D755", "U+1D756", "U+1D757", "U+1D758",
     "U+1D759", "U+1D75A", "U+1D75B", "U+1D75C", "U+1D75D", "U+1D75E",
     "U+1D75F", "U+1D760", "U+1D761", "U+1D762", "U+1D763", "U+1D764",
     "U+1D765", "U+1D766", "U+1D767", "U+1D768", "U+1D769", "U+1D76A",
     "U+1D76B", "U+1D76C", "U+1D76D", "U+1D76E", "U+1D770", "U+1D771",
     "U+1D772", "U+1D773", "U+1D774", "U+1D775", "U+1D776", "U+1D777",
     "U+1D778", "U+1D779", "U+1D77A", "U+1D77B", "U+1D77C", "U+1D77D",
     "U+1D77E", "U+1D77F", "U+1D780", "U+1D781", "U+1D782", "U+1D783",
     "U+1D784", "U+1D785", "U+1D786", "U+1D787", "U+1D788", "U+1D78A",
     "U+1D78B", "U+1D78C", "U+1D78D", "U+1D78E", "U+1D78F", "U+1D790",
     "U+1D791", "U+1D792", "U+1D793", "U+1D794", "U+1D795", "U+1D796",
     "U+1D797", "U+1D798", "U+1D799", "U+1D79A", "U+1D79B", "U+1D79C",
     "U+1D79D", "U+1D79E", "U+1D79F", "U+1D7A0", "U+1D7A1", "U+1D7A2",
     "U+1D7A3", "U+1D7A4", "U+1D7A5", "U+1D7A6", "U+1D7A7", "U+1D7A8",
     "U+1D7AA", "U+1D7AB", "U+1D7AC", "U+1D7AD", "U+1D7AE", "U+1D7AF",
     "U+1D7B0", "U+1D7B1", "U+1D7B2", "U+1D7B3", "U+1D7B4", "U+1D7B5",
     "U+1D7B6", "U+1D7B7", "U+1D7B8", "U+1D7B9", "U+1D7BA", "U+1D7BB",
     "U+1D7BC", "U+1D7BD", "U+1D7BE", "U+1D7BF", "U+1D7C0", "U+1D7C1",
     "U+1D7C2", "U+1D7C4", "U+1D7C5", "U+1D7C6", "U+1D7C7", "U+1D7C8",
     "U+1D7C9", "U+1D7CA", "U+1D7CB", "U+1DF00", "U+1DF01", "U+1DF02",
     "U+1DF03", "U+1DF04", "U+1DF05", "U+1DF06", "U+1DF07", "U+1DF08",
     "U+1DF09", "U+1DF0B", "U+1DF0C", "U+1DF0D", "U+1DF0E", "U+1DF0F",
     "U+1DF10", "U+1DF11", "U+1DF12", "U+1DF13", "U+1DF14", "U+1DF15",
     "U+1DF16", "U+1DF17", "U+1DF18", "U+1DF19", "U+1DF1A", "U+1DF1B",
     "U+1DF1C", "U+1DF1D", "U+1DF1E", "U+1DF25", "U+1DF26", "U+1DF27",
     "U+1DF28", "U+1DF29", "U+1DF2A", "U+1E030", "U+1E031", "U+1E032",
     "U+1E033", "U+1E034", "U+1E035", "U+1E036", "U+1E037", "U+1E038",
     "U+1E039", "U+1E03A", "U+1E03B", "U+1E03C", "U+1E03D", "U+1E03E",
     "U+1E03F", "U+1E040", "U+1E041", "U+1E042", "U+1E043", "U+1E044",
     "U+1E045", "U+1E046", "U+1E047", "U+1E048", "U+1E049", "U+1E04A",
     "U+1E04B", "U+1E04C", "U+1E04D", "U+1E04E", "U+1E04F", "U+1E050",
     "U+1E051", "U+1E052", "U+1E053", "U+1E054", "U+1E055", "U+1E056",
     "U+1E057", "U+1E058", "U+1E059", "U+1E05A", "U+1E05B", "U+1E05C",
     "U+1E05D", "U+1E05E", "U+1E05F", "U+1E060", "U+1E061", "U+1E062",
     "U+1E063", "U+1E064", "U+1E065", "U+1E066", "U+1E067", "U+1E068",
     "U+1E069", "U+1E06A", "U+1E06B", "U+1E06C", "U+1E06D", "U+1E900",
     "U+1E901", "U+1E902", "U+1E903", "U+1E904", "U+1E905", "U+1E906",
     "U+1E907", "U+1E908", "U+1E909", "U+1E90A", "U+1E90B", "U+1E90C",
     "U+1E90D", "U+1E90E", "U+1E90F", "U+1E910", "U+1E911", "U+1E912",
     "U+1E913", "U+1E914", "U+1E915", "U+1E916", "U+1E917", "U+1E918",
     "U+1E919", "U+1E91A", "U+1E91B", "U+1E91C", "U+1E91D", "U+1E91E",
     "U+1E91F", "U+1E920", "U+1E921", "U+1E922", "U+1E923", "U+1E924",
     "U+1E925", "U+1E926", "U+1E927", "U+1E928", "U+1E929", "U+1E92A",
     "U+1E92B", "U+1E92C", "U+1E92D", "U+1E92E", "U+1E92F", "U+1E930",
     "U+1E931", "U+1E932", "U+1E933", "U+1E934", "U+1E935", "U+1E936",
     "U+1E937", "U+1E938", "U+1E939", "U+1E93A", "U+1E93B", "U+1E93C",
     "U+1E93D", "U+1E93E", "U+1E93F", "U+1E940", "U+1E941", "U+1E942",
     "U+1E943", "U+1F130", "U+1F131", "U+1F132", "U+1F133", "U+1F134",
     "U+1F135", "U+1F136", "U+1F137", "U+1F138", "U+1F139", "U+1F13A",
     "U+1F13B", "U+1F13C", "U+1F13D", "U+1F13E", "U+1F13F", "U+1F140",
     "U+1F141", "U+1F142", "U+1F143", "U+1F144", "U+1F145", "U+1F146",
     "U+1F147", "U+1F148", "U+1F149", "U+1F150", "U+1F151", "U+1F152",
     "U+1F153", "U+1F154", "U+1F155", "U+1F156", "U+1F157", "U+1F158",
     "U+1F159", "U+1F15A", "U+1F15B", "U+1F15C", "U+1F15D", "U+1F15E",
     "U+1F15F", "U+1F160", "U+1F161", "U+1F162", "U+1F163", "U+1F164",
     "U+1F165", "U+1F166", "U+1F167", "U+1F168", "U+1F169", "U+1F170",
     "U+1F171", "U+1F172", "U+1F173", "U+1F174", "U+1F175", "U+1F176",
     "U+1F177", "U+1F178", "U+1F179", "U+1F17A", "U+1F17B", "U+1F17C",
     "U+1F17D", "U+1F17E", "U+1F17F", "U+1F180", "U+1F181", "U+1F182",
     "U+1F183", "U+1F184", "U+1F185", "U+1F186", "U+1F187", "U+1F188",
     "U+1F189"}

Digits == <<"0", "1", "2", "3", "4", "5", "6", "7", "8", "9">>

\* Index of the first element of seq equal to x, 0 when there is none
\* (iter().skip_while(|e| *e != x), iter().find(...), str::find).
FirstIndex(seq, x) ==
    IF \E i \in 1..Len(seq) : seq[i] = x
    THEN CHOOSE i \in 1..Len(seq) : seq[i] = x /\ \A j \in 1..(i - 1) : seq[j] # x
    ELSE 0

\* The characters that have a one-character lowercase mapping.
Mapped == {UpperCase[i] : i \in DOMAIN UpperCase}

\* char::to_lowercase: the lowercase mapping of a character, the character
\* itself when it has none; the mapping of U+0130 is i and U+0307.
LowerOf(c) ==
    IF c = "U+0130" THEN <<"i", "U+0307">>
    ELSE IF c \in Mapped THEN <<LowerCase[CHOOSE i \in DOMAIN UpperCase : UpperCase[i] = c]>>
    ELSE <<c>>

\* case_ignorable_then_cased, on the characters of s before i (backwards)
\* and after i: the nearest character that is not Case_Ignorable is Cased.
CasedBefore(s, i) ==
    \E j \in 1..(i - 1) :
        /\ s[j] \notin Case_Ignorable
        /\ s[j] \in Cased
        /\ \A k \in (j + 1)..(i - 1) : s[k] \in Case_Ignorable

CasedAfter(s, i) ==
    \E j \in (i + 1)..Len(s) :
        /\ s[j] \notin Case_Ignorable
        /\ s[j] \in Cased
        /\ \A k \in (i + 1)..(j - 1) : s[k] \in Case_Ignorable

\* Final_Sigma (is_word_final of map_uppercase_sigma): the character at i
\* follows a cased character and precedes none, case-ignorable characters
\* being skipped on both sides.
FinalSigma(s, i) == CasedBefore(s, i) /\ ~CasedAfter(s, i)

\* The concatenation of a sequence of strings.
RECURSIVE Concat(_)
Concat(parts) == IF parts = <<>> THEN <<>> ELSE Head(parts) \o Concat(Tail(parts))

\* The characters that replace the character at i.
Lowered(s, i) ==
    IF s[i] = "Σ" THEN <<IF FinalSigma(s, i) THEN "ς" ELSE "σ">> ELSE LowerOf(s[i])

\* str::to_lowercase: every character is replaced by its lowercase mapping,
\* a capital sigma by the final or the medial small sigma.
to_lowercase(s) == Concat([i \in 1..Len(s) |-> Lowered(s, i)])

\* str::trim: the text between the first and the last character that is not
\* White_Space.
trim(s) ==
    LET keep == {i \in 1..Len(s) : s[i] \notin Whitespace}
    IN IF keep = {}
       THEN <<>>
       ELSE SubSeq(s, CHOOSE i \in keep : \A j \in keep : i <= j,
                      CHOOSE i \in keep : \A j \in keep : j <= i)

\* str::starts_with.
starts_with(s, prefix) == Len(s) >= Len(prefix) /\ SubSeq(s, 1, Len(prefix)) = prefix

\* str::strip_prefix, for a text that starts with the prefix.
strip_prefix(s, prefix) == SubSeq(s, Len(prefix) + 1, Len(s))

\* str::contains, for a one-character pattern.
contains(s, c) == FirstIndex(s, c) # 0

\* str::split_once, for a text that contains the delimiter: the parts before
\* and after its first occurrence.
split_once(s, c) ==
    <<SubSeq(s, 1, FirstIndex(s, c) - 1), SubSeq(s, FirstIndex(s, c) + 1, Len(s))>>

\* str::split: the parts between the delimiters, empty parts included.
RECURSIVE split(_, _)
split(s, c) ==
    IF contains(s, c)
    THEN <<split_once(s, c)[1]>> \o split(split_once(s, c)[2], c)
    ELSE <<s>>

\* ------------------------------------------------------- natural numbers
\* A natural number is a sequence of limbs, the least significant first,
\* each below Base and the last one not zero.
LimbBits == 11

Base == 2 ^ LimbBits

Limb(a, i) == IF i \in DOMAIN a THEN a[i] ELSE 0

\* The limbs of a without the zero limbs at the top.
Strip(a) ==
    IF \A i \in DOMAIN a : a[i] = 0
    THEN <<>>
    ELSE SubSeq(a, 1, CHOOSE i \in DOMAIN a :
                          a[i] # 0 /\ \A j \in (i + 1)..Len(a) : a[j] = 0)

\* The sum of f[lo], ..., f[hi].
RECURSIVE SumOf(_, _, _)
SumOf(f, lo, hi) ==
    IF lo > hi THEN 0
    ELSE IF lo = hi THEN f[lo]
    ELSE SumOf(f, lo, (lo + hi) \div 2) + SumOf(f, (lo + hi) \div 2 + 1, hi)

\* The limbs of the sums s of limbs: a carry enters limb i when a lower limb
\* overflows and every limb between them is full.
Carried(s) ==
    Strip([i \in DOMAIN s |->
              (s[i] + (IF \E j \in 1..(i - 1) :
                              s[j] >= Base /\ \A k \in (j + 1)..(i - 1) : s[k] = Base - 1
                       THEN 1 ELSE 0)) % Base])

\* a + b, in n limbs.
AddIn(a, b, n) == Carried([i \in 1..n |-> Limb(a, i) + Limb(b, i)])

\* a + b.
Add(a, b) == AddIn(a, b, (IF Len(a) > Len(b) THEN Len(a) ELSE Len(b)) + 1)

\* The limbs of the differences d of limbs: a borrow enters limb i when a
\* lower limb is negative and every limb between them is zero.
Borrowed(d) ==
    Strip([i \in DOMAIN d |->
              (d[i] - (IF \E j \in 1..(i - 1) :
                              d[j] < 0 /\ \A k \in (j + 1)..(i - 1) : d[k] = 0
                       THEN 1 ELSE 0) + Base) % Base])

\* a - b, for a >= b.
Sub(a, b) == Borrowed([i \in 1..Len(a) |-> a[i] - Limb(b, i)])

\* a < b.
Less(a, b) ==
    \/ Len(a) < Len(b)
    \/ /\ Len(a) = Len(b)
       /\ \E i \in DOMAIN a : a[i] < b[i] /\ \A k \in (i + 1)..Len(a) : a[k] = b[k]

\* The sum of the limb products of a and b that weigh Base ^ (k - 1).
Column(a, b, k) ==
    SumOf([i \in 1..Len(a) |-> a[i] * Limb(b, k + 1 - i)], 1, Len(a))

\* The number whose columns are given: each column is below Base ^ 3.
Carry(column) ==
    Add(Add([k \in DOMAIN column |-> column[k] % Base],
            <<0>> \o [k \in DOMAIN column |-> (column[k] \div Base) % Base]),
        <<0, 0>> \o [k \in DOMAIN column |-> column[k] \div (Base * Base)])

\* a * b.
Mul(a, b) ==
    IF a = <<>> \/ b = <<>>
    THEN <<>>
    ELSE Carry([k \in 1..(Len(a) + Len(b) - 1) |-> Column(a, b, k)])

\* half * half, times 10 when odd.
Squared(half, odd) == Mul(Mul(half, half), IF odd THEN <<10>> ELSE <<1>>)

\* 10 ^ k.
RECURSIVE Pow10(_)
Pow10(k) == IF k = 0 THEN <<1>> ELSE Squared(Pow10(k \div 2), k % 2 = 1)

\* a * 2 ^ (LimbBits * q + r).
Shifted(a, q, r) ==
    Strip([i \in 1..(Len(a) + q + 1) |->
              ((Limb(a, i - q) * (2 ^ r)) % Base)
                  + (Limb(a, i - q - 1) \div (2 ^ (LimbBits - r)))])

\* a * 2 ^ s.
ShiftLeft(a, s) == Shifted(a, s \div LimbBits, s % LimbBits)

\* The number of bits of a.
BitLen(a) ==
    IF a = <<>> THEN 0
    ELSE LimbBits * (Len(a) - 1)
             + (CHOOSE n \in 1..LimbBits : 2 ^ (n - 1) <= a[Len(a)] /\ a[Len(a)] < 2 ^ n)

\* The n bits of a, the most significant first.
BitsIn(a, n) ==
    [i \in 1..n |-> (a[(n - i) \div LimbBits + 1] \div (2 ^ ((n - i) % LimbBits))) % 2]

\* The bits of a, the most significant first.
Bits(a) == BitsIn(a, BitLen(a))

\* One bit of a quotient: t fits in x or not.
DivStep(x, t) ==
    IF Less(x, t) THEN [q |-> <<0>>, r |-> x] ELSE [q |-> <<1>>, r |-> Sub(x, t)]

\* The bits of upper, then those of lower, and the remainder of lower.
DivJoin(upper, lower) == [q |-> upper \o lower.q, r |-> lower.r]

RECURSIVE DivBits(_, _, _, _)
\* The division goes on below the bits of upper.
DivLower(upper, y, hi, lo) == DivJoin(upper.q, DivBits(upper.r, y, hi, lo))

\* Bits hi down to lo of the quotient of x by y (below 2 ^ (hi + 1)), the
\* most significant first, and the remainder.
DivBits(x, y, hi, lo) ==
    IF hi = lo
    THEN DivStep(x, ShiftLeft(y, lo))
    ELSE DivLower(DivBits(x, y, hi, (hi + lo) \div 2 + 1), y, (hi + lo) \div 2, lo)

\* -------------------------------------------------------------------- f64
\* An f64: not a number, an infinity, or (-1)^neg * mantissa * 2^exponent,
\* the mantissa being the bits of an odd number, the most significant first
\* (no bit for zero).
NaN == [class |-> "nan", neg |-> FALSE, mantissa |-> <<>>, exponent |-> 0]

Infinity(neg) == [class |-> "inf", neg |-> neg, mantissa |-> <<>>, exponent |-> 0]

Zero(neg) == [class |-> "finite", neg |-> neg, mantissa |-> <<>>, exponent |-> 0]

\* f64's ==: NaN differs from every value, itself included, and the two
\* zeros are equal.
F64Eq(x, y) ==
    /\ x.class # "nan"
    /\ y.class # "nan"
    /\ \/ x = y
       \/ x.class = "finite" /\ y.class = "finite" /\ x.mantissa = <<>> /\ y.mantissa = <<>>

\* The bits without the zeros in front.
LeadingStripped(bits) ==
    IF \A i \in DOMAIN bits : bits[i] = 0
    THEN <<>>
    ELSE SubSeq(bits, CHOOSE i \in DOMAIN bits :
                          bits[i] = 1 /\ \A j \in 1..(i - 1) : bits[j] = 0, Len(bits))

\* The number of zeros at the end of bits, which holds a 1.
TrailingZeros(bits) ==
    Len(bits) - (CHOOSE i \in DOMAIN bits :
                     bits[i] = 1 /\ \A j \in (i + 1)..Len(bits) : bits[j] = 0)

\* bits + 1.
Increment(bits) ==
    IF \A i \in DOMAIN bits : bits[i] = 1
    THEN <<1>> \o [i \in DOMAIN bits |-> 0]
    ELSE [i \in DOMAIN bits |->
             IF \E j \in (i + 1)..Len(bits) : bits[j] = 0 THEN bits[i]
             ELSE 1 - bits[i]]

\* The finite f64 of m * 2 ^ exponent, m without zeros in front, or the
\* infinity beyond the largest f64.
Normal(neg, m, exponent) ==
    IF m = <<>> THEN Zero(neg)
    ELSE IF exponent + Len(m) - 1 > 1023 THEN Infinity(neg)
    ELSE [class |-> "finite", neg |-> neg,
          mantissa |-> SubSeq(m, 1, Len(m) - TrailingZeros(m)),
          exponent |-> exponent + TrailingZeros(m)]

Finite(neg, bits, exponent) == Normal(neg, LeadingStripped(bits), exponent)

\* The bits above the lowest drop bits.
Kept(bits, drop) == IF drop >= Len(bits) THEN <<>> ELSE SubSeq(bits, 1, Len(bits) - drop)

\* Round to nearest, ties to even: the first dropped bit is 1, and something
\* is below it or the last kept bit is 1.
RoundsUp(bits, drop, inexact) ==
    /\ drop <= Len(bits)
    /\ bits[Len(bits) - drop + 1] = 1
    /\ \/ inexact
       \/ \E i \in (Len(bits) - drop + 2)..Len(bits) : bits[i] = 1
       \/ drop < Len(bits) /\ bits[Len(bits) - drop] = 1

\* The f64 of (bits + excess) * 2 ^ exponent without its lowest drop bits.
Dropped(neg, bits, exponent, inexact, drop) ==
    IF drop <= 0
    THEN Finite(neg, bits, exponent)
    ELSE Finite(neg,
                IF RoundsUp(bits, drop, inexact) THEN Increment(Kept(bits, drop))
                ELSE Kept(bits, drop),
                exponent + drop)

\* The exponent of the lowest bit an f64 keeps when its highest bit has
\* exponent top: 53 bits, none below 2 ^ -1074.
Lowest(top) == IF top - 52 > 0 - 1074 THEN top - 52 ELSE 0 - 1074

\* The f64 nearest to (bits + excess) * 2 ^ exponent; bits starts with a 1,
\* excess is below 1 and is positive when inexact holds.
RoundToF64(neg, bits, exponent, inexact) ==
    Dropped(neg, bits, exponent, inexact, Lowest(exponent + Len(bits) - 1) - exponent)

\* ------------------------------------------------------ str::parse::<f64>
IsDigit(c) == \E d \in DOMAIN Digits : Digits[d] = c

\* The number of digits at the start of s.
DigitRun(s) ==
    CHOOSE n \in 0..Len(s) :
        /\ \A i \in 1..n : IsDigit(s[i])
        /\ n = Len(s) \/ ~IsDigit(s[n + 1])

\* The text after the sign, if it has one.
Unsigned(s) == IF s # <<>> /\ s[1] \in {"+", "-"} THEN Tail(s) ELSE s

\* The text after the point, if it starts with one.
AfterPoint(s) == IF s # <<>> /\ s[1] = "." THEN Tail(s) ELSE s

\* The digits before the point, the digits at the start of after, and what
\* follows them.
Parts(integer, after) ==
    [integer |-> integer, fraction |-> SubSeq(after, 1, DigitRun(after)),
     rest |-> SubSeq(after, DigitRun(after) + 1, Len(after))]

\* The parts of a text: the digits before the point, the digits after it,
\* and what follows them.
Decompose(s) ==
    Parts(SubSeq(s, 1, DigitRun(s)), AfterPoint(SubSeq(s, DigitRun(s) + 1, Len(s))))

\* parse_number is Some: digits with at most one point among them and at
\* least one digit, then nothing or `e` or `E`, an optional sign and at
\* least one digit; k is the place of the `e`.
IsDecimal(s) ==
    \E k \in 1..(Len(s) + 1) :
        /\ \A i \in 1..(k - 1) : IsDigit(s[i]) \/ s[i] = "."
        /\ \E i \in 1..(k - 1) : IsDigit(s[i])
        /\ \A i \in 1..(k - 1) : \A j \in (i + 1)..(k - 1) : s[i] # "." \/ s[j] # "."
        /\ k <= Len(s) =>
               /\ s[k] \in {"e", "E"}
               /\ k < Len(s)
               /\ IsDigit(s[Len(s)])
               /\ \A i \in (k + 2)..Len(s) : IsDigit(s[i])
               /\ IsDigit(s[k + 1]) \/ (s[k + 1] \in {"+", "-"} /\ k + 1 < Len(s))

\* s is the word in lower or upper case letters, letter by letter.
SpellsIgnoringCase(s, lower, upper) ==
    Len(s) = Len(lower) /\ \A i \in DOMAIN s : s[i] \in {lower[i], upper[i]}

\* parse_inf_nan is Some.
IsInfinity(s) ==
    \/ SpellsIgnoringCase(s, <<"i", "n", "f">>, <<"I", "N", "F">>)
    \/ SpellsIgnoringCase(s, <<"i", "n", "f", "i", "n", "i", "t", "y">>,
                          <<"I", "N", "F", "I", "N", "I", "T", "Y">>)

IsNaN(s) == SpellsIgnoringCase(s, <<"n", "a", "n">>, <<"N", "A", "N">>)

\* The text after the sign is a number.
IsNumber(s) == IsDecimal(s) \/ IsInfinity(s) \/ IsNaN(s)

\* str::parse::<f64> succeeds.
ParsesAsF64(s) == IsNumber(Unsigned(s))

\* The digits without the zeros in front.
SignificantDigits(digits) ==
    IF \A i \in DOMAIN digits : digits[i] = "0"
    THEN <<>>
    ELSE SubSeq(digits, CHOOSE i \in DOMAIN digits :
                            digits[i] # "0" /\ \A j \in 1..(i - 1) : digits[j] = "0",
                Len(digits))

\* The number the first n digits of s denote, n being 9 at most.
SmallValue(s, n) ==
    SumOf([i \in 1..n |-> (FirstIndex(Digits, s[i]) - 1) * 10 ^ (n - i)], 1, n)

\* The number below 2 ^ 31 as a natural number.
SmallNatural(v) == Strip(<<v % Base, (v \div Base) % Base, v \div (Base * Base)>>)

\* left * 10 ^ Len(right) + the number right denotes.
RECURSIVE DigitsValue(_)
Joined(left, right) == Add(Mul(DigitsValue(left), Pow10(Len(right))), DigitsValue(right))

\* The natural number a text of digits denotes.
DigitsValue(s) ==
    IF Len(s) <= 9
    THEN SmallNatural(SmallValue(s, Len(s)))
    ELSE Joined(SubSeq(s, 1, Len(s) \div 2), SubSeq(s, Len(s) \div 2 + 1, Len(s)))

\* The number the digits denote while it is below 65536, the digits having
\* no zero in front: digits are taken into account up to that point.
Saturated(significant) ==
    IF Len(significant) <= 5 THEN SmallValue(significant, Len(significant))
    ELSE IF SmallValue(significant, 5) >= 65536 THEN SmallValue(significant, 5)
    ELSE SmallValue(significant, 6)

\* parse_scientific: the number after the exponent sign.
ExponentNumber(digits) == Saturated(SignificantDigits(digits))

\* The decimal exponent written in the text.
WrittenExponent(rest) ==
    IF rest = <<>> THEN 0
    ELSE (IF rest[2] = "-" THEN 0 - 1 ELSE 1) * ExponentNumber(Unsigned(Tail(rest)))

\* The f64 nearest to the bits of the quotient and its remainder, the
\* quotient being scaled by 2 ^ s.
Quotient(neg, division, s) ==
    RoundToF64(neg, LeadingStripped(division.q), 0 - s, division.r # <<>>)

\* The f64 nearest to numerator / denominator: the quotient of the two, one
\* of them scaled by 2 ^ s, has 55 or 56 bits.
Scaled(neg, numerator, denominator, s) ==
    Quotient(neg,
             DivBits(IF s > 0 THEN ShiftLeft(numerator, s) ELSE numerator,
                     IF s < 0 THEN ShiftLeft(denominator, 0 - s) ELSE denominator,
                     55, 0),
             s)

\* The f64 nearest to numerator / denominator.
Ratio(neg, numerator, denominator) ==
    Scaled(neg, numerator, denominator, 55 - (BitLen(numerator) - BitLen(denominator)))

\* The f64 nearest to digits * 10 ^ exponent, digits starting with a
\* nonzero digit.
NearestF64(neg, digits, exponent) ==
    IF Len(digits) + exponent > 310 THEN Infinity(neg)
    ELSE IF Len(digits) + exponent < 0 - 330 THEN Zero(neg)
    ELSE IF exponent >= 0
    THEN RoundToF64(neg, Bits(Mul(DigitsValue(digits), Pow10(exponent))), 0, FALSE)
    ELSE Ratio(neg, DigitsValue(digits), Pow10(0 - exponent))

\* No more digits than these decide the rounding of a decimal number; a
\* nonzero digit after them counts as a final 1.
MaxDigits == 800

\* The first MaxDigits digits, and a 1 when a nonzero digit follows them.
Cut(significant) ==
    (IF Len(significant) > MaxDigits THEN SubSeq(significant, 1, MaxDigits) ELSE significant)
        \o (IF \E i \in (MaxDigits + 1)..Len(significant) : significant[i] # "0"
            THEN <<"1">> ELSE <<>>)

\* The f64 nearest to significant * 10 ^ exponent, significant having no
\* zero in front.
Significant(neg, significant, exponent) ==
    IF significant = <<>> THEN Zero(neg)
    ELSE NearestF64(neg, Cut(significant),
                    exponent + Len(significant) - Len(Cut(significant)))

\* The f64 of a decimal number, given its parts.
Decimal(neg, p) ==
    Significant(neg, SignificantDigits(p.integer \o p.fraction),
                WrittenExponent(p.rest) - Len(p.fraction))

\* The f64 of the text after the sign.
Magnitude(neg, s) ==
    IF IsNaN(s) THEN NaN
    ELSE IF IsInfinity(s) THEN Infinity(neg)
    ELSE Decimal(neg, Decompose(s))

\* The f64 a text parses to.
F64(s) == Magnitude(s[1] = "-", Unsigned(s))

\* ------------------------------------------------------------- data model
\* DialogueValue (types.rs); the player treats values as opaque.
NoValue == [tag |-> "None", num |-> 0]

Number(n) == [tag |-> "Number", num |-> n]

Boolean(b) == [tag |-> "Boolean", bool |-> b]

Array(elements) == [tag |-> "Array", elements |-> elements]

Text(t) == [tag |-> "Text", text |-> t]

\* DialogueStep (types.rs): one record shape for every variant.
Comment(t) == [kind |-> "Comment", arg |-> t, value |-> NoValue]

LogInfo(t) == [kind |-> "LogInfo", arg |-> t, value |-> NoValue]

LogWarning(t) == [kind |-> "LogWarning", arg |-> t, value |-> NoValue]

LogError(t) == [kind |-> "LogError", arg |-> t, value |-> NoValue]

\* Page(Vec<DialogueLine>): arg holds the lines.
Page(page_lines) == [kind |-> "Page", arg |-> page_lines, value |-> NoValue]

VariableAssign(n, v) == [kind |-> "VariableAssign", arg |-> n, value |-> v]

SectionBounce(t) == [kind |-> "SectionBounce", arg |-> t, value |-> NoValue]

SectionJump(t) == [kind |-> "SectionJump", arg |-> t, value |-> NoValue]

EndJump == [kind |-> "EndJump", arg |-> <<>>, value |-> NoValue]

TerminateJump == [kind |-> "TerminateJump", arg |-> <<>>, value |-> NoValue]

\* DialogueLine (types.rs): one record shape for every variant; pages holds
\* the steps nested in a Response (parse_text_line leaves them empty).
LineText(t) == [kind |-> "Text", speaker |-> <<>>, text |-> t, pages |-> <<>>]

SpeakerText(speaker, t) ==
    [kind |-> "SpeakerText", speaker |-> speaker, text |-> t, pages |-> <<>>]

Response(t, pages) == [kind |-> "Response", speaker |-> <<>>, text |-> t, pages |-> pages]

DialogueActor(name, properties) == [name |-> name, properties |-> properties]

\* DialogueFunction: result is <<>> for None and <<value>> for Some(value).
DialogueFunction(args, result) == [args |-> args, result |-> result]

\* HashMap::new().
EmptyMap == [k \in {} |-> NoValue]

\* Dialogue::default().
DefaultDialogue ==
    [actors |-> EmptyMap, variables |-> EmptyMap, functions |-> EmptyMap, sections |-> <<>>]

\* The step kinds whose match arm only prints.
PlainKinds == {"Comment", "LogInfo", "LogWarning", "LogError", "Page"}

DialogueSection(n, s) == [name |-> n, steps |-> s]

DialogueState(sec, st) == [section |-> sec, step |-> st]

\* ------------------------------------------------------- input documents
\* Section names and jump targets differ only by case, so that an exact
\* match and a case-insensitive match can be told apart.
SectionNames == {<<"A">>, <<"a">>}

\* The variable the documents assign, and the one they declare: the first
\* assignment finds its name missing, a repeated one finds it present.
AssignedName == <<"x">>

DeclaredName == <<"y">>

StepUniverse ==
    {Comment(<<"c">>), VariableAssign(AssignedName, Number(F64(<<"2">>))), EndJump, TerminateJump}
    \cup {SectionJump(t) : t \in SectionNames}
    \cup {SectionBounce(t) : t \in SectionNames}

\* The number of steps of the first i sections, given the sections' lengths.
RECURSIVE StepsBefore(_, _)
StepsBefore(lens, i) == IF i = 0 THEN 0 ELSE lens[i] + StepsBefore(lens, i - 1)

\* The ways to give m sections at most b steps in all.
Shapes(m, b) == {lens \in [1..m -> 0..b] : StepsBefore(lens, m) <= b}

\* The section list of the given shape and names, its steps taken in
\* document order from flat.
SectionList(lens, names, flat) ==
    [i \in 1..Len(lens) |->
        DialogueSection(names[i],
                        SubSeq(flat, StepsBefore(lens, i - 1) + 1, StepsBefore(lens, i)))]

\* HashMap<String, DialogueValue>: a function on the set of its keys.
InitialVariables == [k \in {DeclaredName} |-> Number(F64(<<"1">>))]

\* ------------------------------------------------------------------ state
VARIABLES
    dialogue,        \* parse's `dialogue` under construction, then play's `mut dialogue`
    dialogue_stack,  \* play's work stack; the top is the last element
    executed,        \* one record per loop iteration: the state popped, the stack left
                     \* below it and the variable table at that moment
    status,          \* "started" | "parsing" | "parsed" | "ready" | "running" | "completed" |
                     \* "panicked", "returned" after the parse of parser/mod.rs, and
                     \* "value" | "valued" around parse_value
    input,           \* the dialogue as it was passed to play
    text,            \* the lines (str::lines) of the String passed to parse
    lines,           \* parse's `lines`: the lines not yet taken from the iterator
    line_number,     \* parse's `line_number`
    current_section, \* parse's `current_section`
    warnings,        \* parse's `warnings`; after the parse of parser/mod.rs, the
                     \* lines it printed
    parsed,          \* one record per iteration of parse's main loop: the trimmed
                     \* line and the parser's state when the line was taken
    from,            \* the text given to parse_value
    inferred         \* <<>>, then <<v>> once parse_value has returned v

play_vars == <<dialogue_stack, executed, input>>

parse_vars == <<text, lines, line_number, current_section, warnings, parsed>>

value_vars == <<from, inferred>>

vars == <<dialogue, status, play_vars, parse_vars, value_vars>>

\* -------------------------------------------------------------- helpers
Last(s) == s[Len(s)]

Front(s) == SubSeq(s, 1, Len(s) - 1)

\* dialogue.sections.iter().find(|s| s.name == *section_name): index or 0.
FindSection(d, section_name) ==
    IF \E i \in 1..Len(d.sections) : d.sections[i].name = section_name
    THEN CHOOSE i \in 1..Len(d.sections) :
            /\ d.sections[i].name = section_name
            /\ \A j \in 1..(i - 1) : d.sections[j].name # section_name
    ELSE 0

\* DialogueValue's derived ==: two Numbers are compared as f64.
ValueEq(v, w) ==
    IF v.tag = "Number" /\ w.tag = "Number" THEN F64Eq(v.num, w.num) ELSE v = w

\* DialogueStep's derived ==: the values of two VariableAssign steps are
\* compared with DialogueValue's ==, the lines of two Pages with
\* DialogueLine's ==.
RECURSIVE StepEq(_, _)

\* DialogueLine's derived ==: the pages of two Responses are compared step
\* by step.
LineEq(a, b) ==
    /\ a.kind = b.kind
    /\ a.speaker = b.speaker
    /\ a.text = b.text
    /\ Len(a.pages) = Len(b.pages)
    /\ \A i \in 1..Len(a.pages) : StepEq(a.pages[i], b.pages[i])

StepEq(a, b) ==
    IF a.kind = "VariableAssign" /\ b.kind = "VariableAssign"
    THEN a.arg = b.arg /\ ValueEq(a.value, b.value)
    ELSE IF a.kind = "Page" /\ b.kind = "Page"
    THEN Len(a.arg) = Len(b.arg) /\ \A i \in 1..Len(a.arg) : LineEq(a.arg[i], b.arg[i])
    ELSE a = b

\* DialogueSection's derived ==.
SectionEq(s, t) ==
    /\ s.name = t.name
    /\ Len(s.steps) = Len(t.steps)
    /\ \A i \in 1..Len(s.steps) : StepEq(s.steps[i], t.steps[i])

\* Index of the first step of steps that == step, 0 when there is none.
FirstStep(steps, step) ==
    IF \E i \in 1..Len(steps) : StepEq(steps[i], step)
    THEN CHOOSE i \in 1..Len(steps) :
             StepEq(steps[i], step) /\ \A j \in 1..(i - 1) : ~StepEq(steps[j], step)
    ELSE 0

\* Index of the first section of sections that == section, 0 when there is none.
FirstSection(sections, section) ==
    IF \E i \in 1..Len(sections) : SectionEq(sections[i], section)
    THEN CHOOSE i \in 1..Len(sections) :
             /\ SectionEq(sections[i], section)
             /\ \A j \in 1..(i - 1) : ~SectionEq(sections[j], section)
    ELSE 0

\* The section after the first section EQUAL to the current state's section
\* (skip_while(|s| *s != current_state.section).nth(1)): index or 0.
NextSectionIndex(current_state, d) ==
    LET k == FirstSection(d.sections, current_state.section)
    IN IF k > 0 /\ k + 1 <= Len(d.sections) THEN k + 1 ELSE 0

\* The step after the first step EQUAL to the current step in the state's
\* own copy of the section (skip_while(|l| *l != current_state.step).nth(1)).
NextStepIndex(current_state) ==
    LET j == FirstStep(current_state.section.steps, current_state.step)
    IN IF j > 0 /\ j + 1 <= Len(current_state.section.steps) THEN j + 1 ELSE 0

\* find_next_state panics: next_section.steps.first().unwrap() on an empty section.
FindNextPanics(current_state, d) ==
    /\ NextStepIndex(current_state) = 0
    /\ NextSectionIndex(current_state, d) # 0
    /\ d.sections[NextSectionIndex(current_state, d)].steps = <<>>

\* find_next_state: <<>> for None, <<state>> for Some(state).
find_next_state(current_state, d) ==
    IF NextStepIndex(current_state) # 0
    THEN <<DialogueState(current_state.section,
                         current_state.section.steps[NextStepIndex(current_state)])>>
    ELSE IF NextSectionIndex(current_state, d) # 0
              /\ d.sections[NextSectionIndex(current_state, d)].steps # <<>>
         THEN LET next_section == d.sections[NextSectionIndex(current_state, d)]
              IN <<DialogueState(next_section, next_section.steps[1])>>
         ELSE <<>>

\* The redirect of a SectionJump or SectionBounce arm: <<>> when the arm
\* `continue`s (section not found, or section without steps).
Redirect(d, section_name) ==
    LET i == FindSection(d, section_name)
    IN IF i = 0 \/ d.sections[i].steps = <<>>
       THEN <<>>
       ELSE <<DialogueState(d.sections[i], d.sections[i].steps[1])>>

\* ---------------------------------------------------------------- actions
\* The parser's variables while no text is being parsed.
ParseIdle ==
    /\ text = <<>>
    /\ lines = <<>>
    /\ line_number = 0
    /\ current_section = DialogueSection(<<>>, <<>>)
    /\ warnings = <<>>
    /\ parsed = <<>>

\* parse_value's variables while it is not under study.
ValueIdle ==
    /\ from = <<>>
    /\ inferred = <<>>

\* The player's variables before play is called.
PlayIdle ==
    /\ dialogue_stack = <<>>
    /\ executed = <<>>
    /\ input = DefaultDialogue

Init ==
    /\ \E m \in 0..MaxSections :
           \E lens \in Shapes(m, MaxDocSteps), names \in [1..m -> SectionNames] :
               \E flat \in [1..StepsBefore(lens, m) -> StepUniverse] :
                   dialogue = [DefaultDialogue EXCEPT
                                  !.sections = SectionList(lens, names, flat),
                                  !.variables = InitialVariables]
    /\ dialogue_stack = <<>>
    /\ executed = <<>>
    /\ status = "ready"
    /\ input = dialogue
    /\ ParseIdle
    /\ ValueIdle

\* Mutation: a document without a first step completes silently.
Start_SilentOnEmpty ==
    /\ status = "ready"
    /\ IF dialogue.sections = <<>> \/ dialogue.sections[1].steps = <<>>
       THEN /\ status' = "completed"
            /\ dialogue_stack' = <<>>
       ELSE /\ status' = "running"
            /\ dialogue_stack' =
                   <<DialogueState(dialogue.sections[1], dialogue.sections[1].steps[1])>>
    /\ UNCHANGED <<dialogue, executed, input, parse_vars, value_vars>>

\* play, lines 27-42: the two expect() calls and the first state.
Start ==
    /\ status = "ready"
    /\ IF dialogue.sections = <<>> \/ dialogue.sections[1].steps = <<>>
       THEN /\ status' = "panicked"
            /\ dialogue_stack' = <<>>
       ELSE /\ status' = "running"
            /\ dialogue_stack' =
                   <<DialogueState(dialogue.sections[1], dialogue.sections[1].steps[1])>>
    /\ UNCHANGED <<dialogue, executed, input, parse_vars, value_vars>>

\* The loop head: a state is popped and executed.
CanTick == status = "running" /\ dialogue_stack # <<>> /\ Len(executed) < MaxTicks

Current == Last(dialogue_stack)

Frames == Front(dialogue_stack)

\* str::join.
RECURSIVE Join(_, _)
Join(rows, separator) ==
    IF rows = <<>> THEN <<>>
    ELSE IF Len(rows) = 1 THEN Head(rows)
    ELSE Head(rows) \o separator \o Join(Tail(rows), separator)

\* Mutation: a SpeakerText line is printed with its stored speaker key.
RenderLine_StoredKey(line, d) ==
    IF line.kind = "SpeakerText" THEN line.speaker \o <<":", " ">> \o line.text
    ELSE IF line.kind = "Response" THEN <<"-", " ">> \o line.text
    ELSE line.text

\* Lines 111-126: the output line of one DialogueLine.
RenderLine(line, d) ==
    IF line.kind = "SpeakerText"
    THEN (IF line.speaker \in DOMAIN d.actors THEN d.actors[line.speaker].name
          ELSE line.speaker) \o <<":", " ">> \o line.text
    ELSE IF line.kind = "Response" THEN <<"-", " ">> \o line.text
    ELSE line.text

\* What an iteration writes to the standard output (println!): the text of
\* a LogInfo or LogWarning step, the joined output lines of a Page (128-130).
Printed(step, d) ==
    IF step.kind = "Page"
    THEN <<Join([n \in 1..Len(step.arg) |-> RenderLine(step.arg[n], d)], <<"\n">>)>>
    ELSE IF step.kind \in {"LogInfo", "LogWarning"} THEN <<step.arg>>
    ELSE <<>>

\* What an iteration writes to the standard error (eprintln!): the text of
\* a LogError step, the report of a jump or bounce whose target is missing
\* or has no steps, the report of an assignment to a name not in the table.
Reported(step, d) ==
    IF step.kind = "LogError" THEN <<step.arg>>
    ELSE IF step.kind \in {"SectionJump", "SectionBounce"}
    THEN (IF FindSection(d, step.arg) = 0
          THEN <<<<"S", "e", "c", "t", "i", "o", "n", " ", "n", "o", "t", " ", "f", "o", "u", "n", "d", ":", " ">> \o step.arg>>
          ELSE IF d.sections[FindSection(d, step.arg)].steps = <<>>
               THEN <<<<"S", "e", "c", "t", "i", "o", "n", " ", "h", "a", "s", " ", "n", "o", " ", "p", "a", "g", "e", "s", ":", " ">> \o step.arg>>
               ELSE <<>>)
    ELSE IF step.kind = "VariableAssign" /\ step.arg \notin DOMAIN d.variables
    THEN <<<<"V", "a", "r", "i", "a", "b", "l", "e", " ", "a", "s", "s", "i", "g", "n", "m", "e", "n", "t", " ", "n", "o", "t", " ", "p", "r", "e", "-", "e", "x", "i", "s", "t", "i", "n", "g", ":", " ">> \o step.arg>>
    ELSE <<>>

Record ==
    Append(executed,
           [state |-> Current, frames |-> Frames, variables |-> dialogue.variables,
            output |-> Printed(Current.step, dialogue),
            errors |-> Reported(Current.step, dialogue)])

\* `continue` (or the end of the body): the loop exits when the stack is empty.
LoopStatus(stack) == IF stack = <<>> THEN "completed" ELSE "running"

\* Mutation: the loop stops as soon as a tick has no next state to push.
Advance_StopsWithoutNext(below, new_state, d) ==
    IF FindNextPanics(Current, d)
    THEN /\ status' = "panicked"
         /\ dialogue_stack' = below
    ELSE LET next_state == IF new_state # <<>> THEN new_state ELSE find_next_state(Current, d)
         IN /\ dialogue_stack' = below \o next_state
            /\ status' = IF next_state = <<>> THEN "completed" ELSE "running"

\* Lines 144-151: new_state.or(find_next_state(..)) evaluates find_next_state
\* in every case, then at most one state is pushed on `below`.
Advance(below, new_state, d) ==
    IF FindNextPanics(Current, d)
    THEN /\ status' = "panicked"
         /\ dialogue_stack' = below
    ELSE LET next_state == IF new_state # <<>> THEN new_state ELSE find_next_state(Current, d)
         IN /\ dialogue_stack' = below \o next_state
            /\ status' = LoopStatus(below \o next_state)

\* `continue` before the end of the body: nothing is pushed.
Continue ==
    /\ dialogue_stack' = Frames
    /\ status' = LoopStatus(Frames)

TickPlain ==
    /\ CanTick
    /\ Current.step.kind \in PlainKinds
    /\ executed' = Record
    /\ Advance(Frames, <<>>, dialogue)
    /\ UNCHANGED <<dialogue, input, parse_vars, value_vars>>

\* Mutation: a jump to a missing section falls through to the next step.
TickSectionJump_MissingFallsThrough ==
    /\ CanTick
    /\ Current.step.kind = "SectionJump"
    /\ executed' = Record
    /\ IF FindSection(dialogue, Current.step.arg) = 0
       THEN Advance(Frames, <<>>, dialogue)
       ELSE IF Redirect(dialogue, Current.step.arg) = <<>>
            THEN Continue
            ELSE Advance(Frames, Redirect(dialogue, Current.step.arg), dialogue)
    /\ UNCHANGED <<dialogue, input, parse_vars, value_vars>>

\* Mutation: a jump leaves a return frame, as a bounce does.
TickSectionJump_KeepsReturn ==
    /\ CanTick
    /\ Current.step.kind = "SectionJump"
    /\ executed' = Record
    /\ IF Redirect(dialogue, Current.step.arg) = <<>>
       THEN Continue
       ELSE Advance(Frames \o find_next_state(Current, dialogue),
                    Redirect(dialogue, Current.step.arg), dialogue)
    /\ UNCHANGED <<dialogue, input, parse_vars, value_vars>>

TickSectionJump ==
    /\ CanTick
    /\ Current.step.kind = "SectionJump"
    /\ executed' = Record
    /\ IF Redirect(dialogue, Current.step.arg) = <<>>
       THEN Continue
       ELSE Advance(Frames, Redirect(dialogue, Current.step.arg), dialogue)
    /\ UNCHANGED <<dialogue, input, parse_vars, value_vars>>

\* Mutation: a bounce to a missing section falls through to the next step.
TickSectionBounce_MissingFallsThrough ==
    /\ CanTick
    /\ Current.step.kind = "SectionBounce"
    /\ executed' = Record
    /\ IF FindSection(dialogue, Current.step.arg) = 0
       THEN Advance(Frames, <<>>, dialogue)
       ELSE IF Redirect(dialogue, Current.step.arg) = <<>>
            THEN Continue
            ELSE Advance(Frames \o find_next_state(Current, dialogue),
                         Redirect(dialogue, Current.step.arg), dialogue)
    /\ UNCHANGED <<dialogue, input, parse_vars, value_vars>>

\* Mutation: the return frame is put under the frames already pending.
TickSectionBounce_FrameAtBottom ==
    /\ CanTick
    /\ Current.step.kind = "SectionBounce"
    /\ executed' = Record
    /\ IF Redirect(dialogue, Current.step.arg) = <<>>
       THEN Continue
       ELSE Advance(find_next_state(Current, dialogue) \o Frames,
                    Redirect(dialogue, Current.step.arg), dialogue)
    /\ UNCHANGED <<dialogue, input, parse_vars, value_vars>>

TickSectionBounce ==
    /\ CanTick
    /\ Current.step.kind = "SectionBounce"
    /\ executed' = Record
    /\ IF Redirect(dialogue, Current.step.arg) = <<>>
       THEN Continue
       ELSE Advance(Frames \o find_next_state(Current, dialogue),
                    Redirect(dialogue, Current.step.arg), dialogue)
    /\ UNCHANGED <<dialogue, input, parse_vars, value_vars>>

\* Mutation: EndJump treated like a step without navigation behaviour.
TickEndJump_FallsThrough ==
    /\ CanTick
    /\ Current.step.kind = "EndJump"
    /\ executed' = Record
    /\ Advance(Frames, <<>>, dialogue)
    /\ UNCHANGED <<dialogue, input, parse_vars, value_vars>>

TickEndJump ==
    /\ CanTick
    /\ Current.step.kind = "EndJump"
    /\ executed' = Record
    /\ Continue
    /\ UNCHANGED <<dialogue, input, parse_vars, value_vars>>

\* Mutation: TerminateJump treated like EndJump (`continue` for `break`).
TickTerminateJump_Continues ==
    /\ CanTick
    /\ Current.step.kind = "TerminateJump"
    /\ executed' = Record
    /\ Continue
    /\ UNCHANGED <<dialogue, input, parse_vars, value_vars>>

\* `break`: the loop ends with whatever is left on the stack.
TickTerminateJump ==
    /\ CanTick
    /\ Current.step.kind = "TerminateJump"
    /\ executed' = Record
    /\ dialogue_stack' = Frames
    /\ status' = "completed"
    /\ UNCHANGED <<dialogue, input, parse_vars, value_vars>>

\* remove + insert: the value is replaced or added.
Insert(map, name, value) ==
    [k \in DOMAIN map \cup {name} |-> IF k = name THEN value ELSE map[k]]

\* Mutation: a name that is not in the table is reported and not inserted.
TickVariableAssign_OnlyDeclared ==
    /\ CanTick
    /\ Current.step.kind = "VariableAssign"
    /\ executed' = Record
    /\ dialogue' =
           IF Current.step.arg \in DOMAIN dialogue.variables
           THEN [dialogue EXCEPT
                    !.variables = Insert(dialogue.variables, Current.step.arg,
                                         Current.step.value)]
           ELSE dialogue
    /\ Advance(Frames, <<>>, dialogue')
    /\ UNCHANGED <<input, parse_vars, value_vars>>

TickVariableAssign ==
    /\ CanTick
    /\ Current.step.kind = "VariableAssign"
    /\ executed' = Record
    /\ dialogue' = [dialogue EXCEPT
           !.variables = Insert(dialogue.variables, Current.step.arg, Current.step.value)]
    /\ Advance(Frames, <<>>, dialogue')
    /\ UNCHANGED <<input, parse_vars, value_vars>>

Next ==
    \/ Start
    \/ TickPlain
    \/ TickSectionJump
    \/ TickSectionBounce
    \/ TickEndJump
    \/ TickTerminateJump
    \/ TickVariableAssign

Spec == Init /\ [][Next]_vars

\* ------------------------------------------------------------ parse_value
True == <<"t", "r", "u", "e">>

False == <<"f", "a", "l", "s", "e">>

\* str::parse::<bool> succeeds: exactly the two lowercase literals.
ParsesAsBool(s) == s \in {True, False}

\* strip_prefix("[").and_then(|s| s.strip_suffix("]")) is Some.
IsArrayText(s) == Len(s) >= 2 /\ s[1] = "[" /\ s[Len(s)] = "]"

NonEmpty(s) == s # <<>>

\* split(',').map(trim).filter(|s| !s.is_empty()) of the text between the brackets.
ArrayElements(s) ==
    LET parts == split(SubSeq(s, 2, Len(s) - 1), ",")
    IN SelectSeq([i \in 1..Len(parts) |-> trim(parts[i])], NonEmpty)

\* Mutation: the boolean literals are recognised in any case.
parse_value_AnyCase(s) ==
    IF ParsesAsBool(to_lowercase(s)) THEN Boolean(to_lowercase(s) = True)
    ELSE IF ParsesAsF64(s) THEN Number(F64(s))
    ELSE IF IsArrayText(s) THEN Array(ArrayElements(s))
    ELSE Text(s)

parse_value(s) ==
    IF ParsesAsBool(s) THEN Boolean(s = True)
    ELSE IF ParsesAsF64(s) THEN Number(F64(s))
    ELSE IF IsArrayText(s) THEN Array(ArrayElements(s))
    ELSE Text(s)

\* The pieces the texts given to parse_value are made of: they spell, among
\* others, 1.1, -.1, 1., nan and -nan.
ValueTokens ==
    {True, False, <<"T", "r", "u", "e">>, <<"1">>, <<"-">>, <<".">>, <<"[">>, <<"]">>, <<",">>,
     <<" ">>, <<"n", "a", "n">>}

ValueInit ==
    /\ status = "value"
    /\ \E n \in 0..MaxTokens : \E tokens \in [1..n -> ValueTokens] : from = Concat(tokens)
    /\ inferred = <<>>
    /\ dialogue = DefaultDialogue
    /\ PlayIdle
    /\ ParseIdle

InferValue ==
    /\ status = "value"
    /\ inferred' = <<parse_value(from)>>
    /\ status' = "valued"
    /\ UNCHANGED <<dialogue, play_vars, parse_vars, from>>

ValueNext == InferValue

ValueSpec == ValueInit /\ [][ValueNext]_vars

\* ------------------------------------------------------------------ parse
META_SECTION_NAME == <<"M", "e", "t", "a">>

\* str::trim_end_matches, for a one-character pattern.
RECURSIVE trim_end_matches(_, _)
trim_end_matches(s, c) ==
    IF s # <<>> /\ Last(s) = c THEN trim_end_matches(Front(s), c) ELSE s

\* A warning: the format! arguments and the fixed part of the message.
Warning(current_line, message, subject) ==
    [line |-> current_line, message |-> message, subject |-> subject]

\* is_new_step: the tests are made on the line as it is given.
is_new_step(line) ==
    \/ line = <<>>
    \/ starts_with(line, <<"/", "/">>)
    \/ starts_with(line, <<"@">>)
    \/ starts_with(line, <<"#">>)
    \/ starts_with(line, <<"!">>)
    \/ starts_with(line, <<"$">>)
    \/ starts_with(line, <<"=", ">", "<", "=">>)
    \/ starts_with(line, <<"=", ">">>)

\* parse_section is Some; the section it returns.
IsSection(line) == starts_with(line, <<"#">>)

parse_section(line) == DialogueSection(trim(strip_prefix(line, <<"#">>)), <<>>)

\* parse_actor_definition is Some: an `@` line whose remainder has no `:`.
IsActorDefinition(line) ==
    starts_with(line, <<"@">>) /\ ~contains(strip_prefix(line, <<"@">>), ":")

\* Mutation: a line without `:` is skipped and the block goes on after it.
RECURSIVE ActorProperties_SkipsOtherLines(_, _)
ActorProperties_SkipsOtherLines(rest, properties) ==
    IF rest = <<>> \/ is_new_step(Head(rest))
    THEN [properties |-> properties, lines |-> rest]
    ELSE IF ~contains(Head(rest), ":")
         THEN ActorProperties_SkipsOtherLines(Tail(rest), properties)
         ELSE ActorProperties_SkipsOtherLines(
                  Tail(rest),
                  Insert(properties,
                         to_lowercase(trim(split_once(Head(rest), ":")[1])),
                         parse_value(trim(split_once(Head(rest), ":")[2]))))

\* The sub-iteration of parse_actor_definition over the lines after the
\* header: the properties collected and the lines left in the iterator.
RECURSIVE ActorProperties(_, _)
ActorProperties(rest, properties) ==
    IF rest = <<>> \/ is_new_step(Head(rest))
    THEN [properties |-> properties, lines |-> rest]
    ELSE IF ~contains(Head(rest), ":")
         THEN [properties |-> properties, lines |-> Tail(rest)]
         ELSE ActorProperties(
                  Tail(rest),
                  Insert(properties,
                         to_lowercase(trim(split_once(Head(rest), ":")[1])),
                         parse_value(trim(split_once(Head(rest), ":")[2]))))

\* Mutation: the display name is always the header id.
parse_actor_definition_IdAsName(line, rest) ==
    LET actor_name == trim(strip_prefix(line, <<"@">>))
        block == ActorProperties(rest, EmptyMap)
    IN [id |-> to_lowercase(actor_name),
        actor |-> DialogueActor(actor_name, block.properties),
        lines |-> block.lines]

\* The key, the actor and the lines left, for a header line and the lines after it.
parse_actor_definition(line, rest) ==
    LET actor_name == trim(strip_prefix(line, <<"@">>))
        block == ActorProperties(rest, EmptyMap)
        name_key == <<"n", "a", "m", "e">>
        display_name ==
            IF name_key \in DOMAIN block.properties /\ block.properties[name_key].tag = "Text"
            THEN block.properties[name_key].text
            ELSE actor_name
    IN [id |-> to_lowercase(actor_name),
        actor |-> DialogueActor(display_name, block.properties),
        lines |-> block.lines]

\* Mutation: the generic comment prefix is tried before the log prefixes.
IsLogStep_CommentFirst(line) == FALSE

\* parse_log_step is Some; the step it returns.
IsLogStep(line) ==
    \/ starts_with(line, <<"/", "/", "/">>)
    \/ starts_with(line, <<"/", "/", "?">>)
    \/ starts_with(line, <<"/", "/", "!">>)

parse_log_step(line) ==
    IF starts_with(line, <<"/", "/", "/">>) THEN LogInfo(trim(SubSeq(line, 4, Len(line))))
    ELSE IF starts_with(line, <<"/", "/", "?">>) THEN LogWarning(trim(SubSeq(line, 4, Len(line))))
    ELSE LogError(trim(SubSeq(line, 4, Len(line))))

\* parse_comment_step is Some; the step it returns.
IsCommentStep(line) == starts_with(line, <<"/", "/">>)

parse_comment_step(line) == Comment(trim(strip_prefix(line, <<"/", "/">>)))

\* parse_function_definition is Some.
IsFunctionDefinition(line) == starts_with(line, <<"!">>)

\* One `name[=value]` argument: splitn(2, "=").
ArgumentName(arg) == trim(IF contains(arg, "=") THEN split_once(arg, "=")[1] ELSE arg)

ArgumentValue(arg) ==
    parse_value(trim(IF contains(arg, "=") THEN split_once(arg, "=")[2] ELSE <<>>))

\* collect() into a HashMap: a later argument replaces an earlier one of the same name.
RECURSIVE CollectArguments(_, _)
CollectArguments(arguments, map) ==
    IF arguments = <<>>
    THEN map
    ELSE CollectArguments(Tail(arguments),
                          Insert(map, ArgumentName(Head(arguments)),
                                 ArgumentValue(Head(arguments))))

\* Mutation: the function is stored under its name as written.
parse_function_definition_KeepsCase(line) ==
    LET function_definition == strip_prefix(line, <<"!">>)
        has_result == contains(function_definition, ":")
        signature ==
            IF has_result THEN split_once(function_definition, ":")[1]
            ELSE function_definition
        result ==
            IF has_result
            THEN <<parse_value(trim(split_once(function_definition, ":")[2]))>>
            ELSE <<>>
        has_arguments == contains(signature, "(")
        arg_definitions ==
            IF has_arguments
            THEN trim(trim_end_matches(split_once(signature, "(")[2], ")"))
            ELSE <<>>
        args ==
            IF arg_definitions # <<>>
            THEN <<CollectArguments(split(arg_definitions, ","), EmptyMap)>>
            ELSE <<>>
        function_text == IF has_arguments THEN split_once(signature, "(")[1] ELSE signature
    IN [id |-> trim(function_text), function |-> DialogueFunction(args, result)]

\* The key and the function of a `!` line; args and result are <<>> for None.
parse_function_definition(line) ==
    LET function_definition == strip_prefix(line, <<"!">>)
        has_result == contains(function_definition, ":")
        signature ==
            IF has_result THEN split_once(function_definition, ":")[1]
            ELSE function_definition
        result ==
            IF has_result
            THEN <<parse_value(trim(split_once(function_definition, ":")[2]))>>
            ELSE <<>>
        has_arguments == contains(signature, "(")
        arg_definitions ==
            IF has_arguments
            THEN trim(trim_end_matches(split_once(signature, "(")[2], ")"))
            ELSE <<>>
        args ==
            IF arg_definitions # <<>>
            THEN <<CollectArguments(split(arg_definitions, ","), EmptyMap)>>
            ELSE <<>>
        function_text == IF has_arguments THEN split_once(signature, "(")[1] ELSE signature
    IN [id |-> to_lowercase(trim(function_text)), function |-> DialogueFunction(args, result)]

\* parse_variable_definition is Some; the name and the value it returns.
\* Mutation: a line with `=` is left to the assignment classifier.
IsVariableDefinition_AssignmentFirst(line) ==
    /\ starts_with(line, <<"$">>)
    /\ contains(strip_prefix(line, <<"$">>), ":")
    /\ ~contains(strip_prefix(line, <<"$">>), "=")

IsVariableDefinition(line) ==
    starts_with(line, <<"$">>) /\ contains(strip_prefix(line, <<"$">>), ":")

\* Mutation: the declared name keeps its case.
parse_variable_definition_KeepsCase(line) ==
    LET parts == split_once(strip_prefix(line, <<"$">>), ":")
    IN [name |-> trim(parts[1]), value |-> parse_value(trim(parts[2]))]

parse_variable_definition(line) ==
    LET parts == split_once(strip_prefix(line, <<"$">>), ":")
    IN [name |-> to_lowercase(trim(parts[1])), value |-> parse_value(trim(parts[2]))]

\* parse_variable_assignment is Some.
IsVariableAssignment(line) ==
    starts_with(line, <<"$">>) /\ contains(strip_prefix(line, <<"$">>), "=")

\* The step and the warnings pushed: the name is looked up as written and
\* stored in lowercase.
parse_variable_assignment(line, d, current_line) ==
    LET parts == split_once(strip_prefix(line, <<"$">>), "=")
        variable_name == trim(parts[1])
    IN [step |-> VariableAssign(to_lowercase(variable_name), parse_value(trim(parts[2]))),
        warnings |->
            IF variable_name \in DOMAIN d.variables
            THEN <<>>
            ELSE <<Warning(current_line, "Static variable definition not found",
                           variable_name)>>]

\* parse_section_bounce is Some; the step it returns.
IsSectionBounce(line) == starts_with(line, <<"=", ">", "<", "=">>)

parse_section_bounce(line) == SectionBounce(trim(strip_prefix(line, <<"=", ">", "<", "=">>)))

\* parse_section_jump is Some; the step it returns.
IsSectionJump(line) == starts_with(line, <<"=", ">">>)

\* Mutation: the keywords end and terminate are matched in lowercase only.
parse_section_jump_CaseSensitive(line) ==
    LET jump_section == trim(strip_prefix(line, <<"=", ">">>))
    IN IF jump_section = <<"e", "n", "d">> THEN EndJump
       ELSE IF jump_section = <<"t", "e", "r", "m", "i", "n", "a", "t", "e">>
            THEN TerminateJump
            ELSE SectionJump(jump_section)

parse_section_jump(line) ==
    LET jump_section == trim(strip_prefix(line, <<"=", ">">>))
    IN IF to_lowercase(jump_section) = <<"e", "n", "d">> THEN EndJump
       ELSE IF to_lowercase(jump_section) = <<"t", "e", "r", "m", "i", "n", "a", "t", "e">>
            THEN TerminateJump
            ELSE SectionJump(jump_section)

\* parse_text_line: the DialogueLine and the warnings pushed.
parse_text_line(line, d, current_line) ==
    IF starts_with(line, <<"-">>)
    THEN [line |-> Response(trim(strip_prefix(line, <<"-">>)), <<>>), warnings |-> <<>>]
    ELSE IF contains(line, ":") /\ trim(split_once(line, ":")[2]) # <<>>
         THEN LET speaker == trim(split_once(line, ":")[1])
                  spoken == trim(split_once(line, ":")[2])
                  speaker_id == to_lowercase(trim(strip_prefix(speaker, <<"@">>)))
              IN IF starts_with(speaker, <<"@">>)
                 THEN [line |-> SpeakerText(speaker_id, spoken),
                       warnings |->
                           IF speaker_id \in DOMAIN d.actors
                           THEN <<>>
                           ELSE <<Warning(current_line, "Actor definition not found",
                                          speaker_id)>>]
                 ELSE [line |-> SpeakerText(speaker, spoken), warnings |-> <<>>]
         ELSE [line |-> LineText(line), warnings |-> <<>>]

\* The sub-iteration of parse_page over the lines after the first one: the
\* DialogueLines and warnings added and the lines left in the iterator.
RECURSIVE PageContinuation(_, _, _)
PageContinuation(rest, d, current_line) ==
    IF rest = <<>> \/ is_new_step(Head(rest))
    THEN [page_lines |-> <<>>, warnings |-> <<>>, lines |-> rest]
    ELSE LET first == parse_text_line(Head(rest), d, current_line)
             others == PageContinuation(Tail(rest), d, current_line)
         IN [page_lines |-> <<first.line>> \o others.page_lines,
             warnings |-> first.warnings \o others.warnings,
             lines |-> others.lines]

\* Mutation: the continuation lines are added to the page and stay in the
\* iterator.
parse_page_KeepsLines(line, rest, d, current_line) ==
    LET first == parse_text_line(line, d, current_line)
        others == PageContinuation(rest, d, current_line)
    IN [step |-> Page(<<first.line>> \o others.page_lines),
        warnings |-> first.warnings \o others.warnings,
        lines |-> rest]

\* The Page step, the warnings pushed and the lines left.
parse_page(line, rest, d, current_line) ==
    LET first == parse_text_line(line, d, current_line)
        others == PageContinuation(rest, d, current_line)
    IN [step |-> Page(<<first.line>> \o others.page_lines),
        warnings |-> first.warnings \o others.warnings,
        lines |-> others.lines]

\* current_section.steps.push(step).
PushStep(section, step) == [section EXCEPT !.steps = Append(section.steps, step)]

\* Mutation: a section closed by a header is pushed whether or not it has steps.
PushSection_Always(sections, section) == Append(sections, section)

\* The sections after `if !current_section.steps.is_empty() { push }`.
PushSection(sections, section) ==
    IF section.steps # <<>> THEN Append(sections, section) ELSE sections

\* Mutation: the section in progress is pushed at the end of the input
\* whether or not it has steps.
PushLastSection_Always(sections, section) == Append(sections, section)

\* Lines 135-137: the push after the last line.
PushLastSection(sections, section) == PushSection(sections, section)

\* The texts given to parse: at most MaxLines lines of the given family.
ParseInit(family) ==
    /\ status = "parsing"
    /\ \E n \in 0..MaxLines : text \in [1..n -> family]
    /\ lines = text
    /\ line_number = 0
    /\ current_section = DialogueSection(META_SECTION_NAME, <<>>)
    /\ warnings = <<>>
    /\ parsed = <<>>
    /\ dialogue = DefaultDialogue
    /\ PlayIdle
    /\ ValueIdle

\* One iteration of parse's main loop: the next line is taken and trimmed,
\* the first classifier that accepts it acts, sub-iterations included.
ParseLine ==
    /\ status = "parsing"
    /\ lines # <<>>
    /\ LET line == trim(Head(lines))
           rest == Tail(lines)
           current_line == line_number + 1
       IN /\ line_number' = current_line
          /\ parsed' = Append(parsed,
                 [line |-> line, lines |-> lines, dialogue |-> dialogue,
                  current_section |-> current_section, warnings |-> warnings])
          /\ IF line = <<>>
             THEN /\ lines' = rest
                  /\ UNCHANGED <<dialogue, current_section, warnings>>
             ELSE IF IsSection(line)
             THEN /\ dialogue' = [dialogue EXCEPT
                         !.sections = PushSection(dialogue.sections, current_section)]
                  /\ current_section' = parse_section(line)
                  /\ lines' = rest
                  /\ UNCHANGED warnings
             ELSE IF IsActorDefinition(line)
             THEN /\ dialogue' = [dialogue EXCEPT
                         !.actors = Insert(dialogue.actors,
                                           parse_actor_definition(line, rest).id,
                                           parse_actor_definition(line, rest).actor)]
                  /\ lines' = parse_actor_definition(line, rest).lines
                  /\ UNCHANGED <<current_section, warnings>>
             ELSE IF IsLogStep(line)
             THEN /\ current_section' = PushStep(current_section, parse_log_step(line))
                  /\ lines' = rest
                  /\ UNCHANGED <<dialogue, warnings>>
             ELSE IF IsCommentStep(line)
             THEN /\ current_section' = PushStep(current_section, parse_comment_step(line))
                  /\ lines' = rest
                  /\ UNCHANGED <<dialogue, warnings>>
             ELSE IF IsFunctionDefinition(line)
             THEN /\ dialogue' = [dialogue EXCEPT
                         !.functions = Insert(dialogue.functions,
                                              parse_function_definition(line).id,
                                              parse_function_definition(line).function)]
                  /\ lines' = rest
                  /\ UNCHANGED <<current_section, warnings>>
             ELSE IF IsVariableDefinition(line)
             THEN /\ dialogue' = [dialogue EXCEPT
                         !.variables = Insert(dialogue.variables,
                                              parse_variable_definition(line).name,
                                              parse_variable_definition(line).value)]
                  /\ lines' = rest
                  /\ UNCHANGED <<current_section, warnings>>
             ELSE IF IsVariableAssignment(line)
             THEN /\ current_section' =
                         PushStep(current_section,
                                  parse_variable_assignment(line, dialogue, current_line).step)
                  /\ warnings' =
                         warnings \o parse_variable_assignment(line, dialogue, current_line).warnings
                  /\ lines' = rest
                  /\ UNCHANGED dialogue
             ELSE IF IsSectionBounce(line)
             THEN /\ current_section' = PushStep(current_section, parse_section_bounce(line))
                  /\ lines' = rest
                  /\ UNCHANGED <<dialogue, warnings>>
             ELSE IF IsSectionJump(line)
             THEN /\ current_section' = PushStep(current_section, parse_section_jump(line))
                  /\ lines' = rest
                  /\ UNCHANGED <<dialogue, warnings>>
             ELSE /\ current_section' =
                         PushStep(current_section,
                                  parse_page(line, rest, dialogue, current_line).step)
                  /\ warnings' =
                         warnings \o parse_page(line, rest, dialogue, current_line).warnings
                  /\ lines' = parse_page(line, rest, dialogue, current_line).lines
                  /\ UNCHANGED dialogue
    /\ UNCHANGED <<status, text, play_vars, value_vars>>

\* The end of parse: the section in progress is pushed when it has steps and
\* the ParseResult is returned.
ParseReturn ==
    /\ status = "parsing"
    /\ lines = <<>>
    /\ dialogue' = [dialogue EXCEPT
           !.sections = PushLastSection(dialogue.sections, current_section)]
    /\ status' = "parsed"
    /\ UNCHANGED <<text, lines, line_number, current_section, warnings, parsed,
                   play_vars, value_vars>>

ParseNext == ParseLine \/ ParseReturn

\* --------------------------------------------------------- nested bounces
\* Documents for nested bounces: three sections A, B, C in this order, whose
\* steps are bounces to B and to C, a comment and `=> END`.
NestedNames == <<<<"A">>, <<"B">>, <<"C">>>>

NestedUniverse ==
    {SectionBounce(<<"B">>), SectionBounce(<<"C">>), Comment(<<"c">>), EndJump}

NestedInit ==
    /\ \E lens \in Shapes(Len(NestedNames), MaxNestedSteps) :
           \E flat \in [1..StepsBefore(lens, Len(NestedNames)) -> NestedUniverse] :
               dialogue = [DefaultDialogue EXCEPT
                              !.sections = SectionList(lens, NestedNames, flat)]
    /\ dialogue_stack = <<>>
    /\ executed = <<>>
    /\ status = "ready"
    /\ input = dialogue
    /\ ParseIdle
    /\ ValueIdle

\* The arms of play that these documents reach.
NestedNext == Start \/ TickPlain \/ TickSectionBounce \/ TickEndJump

NestedSpec == NestedInit /\ [][NestedNext]_vars

\* ---------------------------------------------------------- response pages
\* Documents whose pages hold a Response: one section A, whose steps are
\* pages that differ only in the steps nested in the Response, and a comment.
ResponseUniverse ==
    {Page(<<Response(<<"r">>, <<Comment(<<"x">>)>>)>>),
     Page(<<Response(<<"r">>, <<>>)>>),
     Page(<<Response(<<"r">>, <<VariableAssign(AssignedName, Number(NaN))>>)>>),
     Comment(<<"c">>)}

ResponseInit ==
    /\ \E n \in 0..MaxDocSteps :
           \E steps \in [1..n -> ResponseUniverse] :
               dialogue = [DefaultDialogue EXCEPT
                              !.sections = <<DialogueSection(<<"A">>, steps)>>]
    /\ dialogue_stack = <<>>
    /\ executed = <<>>
    /\ status = "ready"
    /\ input = dialogue
    /\ ParseIdle
    /\ ValueIdle

\* The arms of play that these documents reach.
ResponseNext == Start \/ TickPlain

ResponseSpec == ResponseInit /\ [][ResponseNext]_vars

\* ----------------------------------------------------------- parsed texts
\* Headers, steps of several kinds, a declaration and an empty line.
SectionFamily ==
    {<<"#", "A">>, <<"#", " ", "b">>, <<"/", "/", " ", "c">>, <<"h", "i">>, <<"=", ">", " ", "A">>,
     <<"$", "x", ":", " ", "1">>, <<>>}

SectionSpec == ParseInit(SectionFamily) /\ [][ParseNext]_vars

\* Declarations and assignments of one name in two spellings, an assignment
\* of an undeclared name, a header, a page line and an empty line.
VariableFamily ==
    {<<"$", "x", ":", " ", "1">>, <<"$", "X", ":", " ", "3">>, <<"$", "x", " ", "=", " ", "2">>, <<"$", "X", " ", "=", " ", "2">>,
     <<"$", "y", " ", "=", " ", "1">>, <<"#", "A">>, <<"h", "i">>, <<>>}

VariableSpec == ParseInit(VariableFamily) /\ [][ParseNext]_vars

\* Bounces and jumps, with the keywords in several cases and as bounce
\* targets, a page line and an indented jump.
JumpFamily ==
    {<<"=", ">", "<", "=", " ", "A">>, <<"=", ">", "<", "=", " ", "E", "n", "d">>, <<"=", ">", " ", "E", "N", "D">>, <<"=", ">", "e", "n", "d">>, <<"=", ">", " ", "T", "e", "r", "m", "i", "n", "a", "t", "e">>,
     <<"=", ">", " ", "a">>, <<"h", "i">>, <<" ", " ", "=", ">", " ", "a">>}

JumpSpec == ParseInit(JumpFamily) /\ [][ParseNext]_vars

\* Comments and the three log levels, with and without text, a page line
\* and an indented comment.
CommentFamily ==
    {<<"/", "/", " ", "c">>, <<"/", "/", "/", " ", "i">>, <<"/", "/", "?", " ", "w">>, <<"/", "/", "!", " ", "e">>, <<"/", "/">>, <<"/", "/", "/">>,
     <<"h", "i">>, <<" ", " ", "/", "/", " ", "c">>}

CommentSpec == ParseInit(CommentFamily) /\ [][ParseNext]_vars

\* An actor header, properties (a name that is Text, a name that is a
\* Number, another key), a spoken line, a page line, an empty line and a
\* line of whitespace.
ActorFamily ==
    {<<"@", "B", "o", "b">>, <<"n", "a", "m", "e", ":", " ", "R", "o", "b">>, <<"n", "a", "m", "e", ":", " ", "1">>, <<"k", ":", " ", "v">>, <<"@", "b", "o", "b", ":", " ", "h", "i">>,
     <<"h", "i">>, <<>>, <<" ">>}

ActorSpec == ParseInit(ActorFamily) /\ [][ParseNext]_vars

\* ------------------------------------------------------- parse, then play
\* play is called with the document parse returned (`mut dialogue`).
Play ==
    /\ status = "parsed"
    /\ status' = "ready"
    /\ input' = dialogue
    /\ UNCHANGED <<dialogue, dialogue_stack, executed, parse_vars, value_vars>>

\* An actor with a display name, spoken lines of that actor and of an
\* undefined one, and a line for each of the other arms of play.
PlayFamily ==
    {<<"@", "B", "o", "b">>, <<"n", "a", "m", "e", ":", " ", "R", "o", "b">>, <<"@", "b", "o", "b", ":", " ", "h", "i">>, <<"@", "Z", "e", "d", ":", " ", "y", "o">>, <<"=", ">", " ", "A">>,
     <<"=", ">", "<", "=", " ", "A">>, <<"=", ">", " ", "e", "n", "d">>, <<"=", ">", " ", "t", "e", "r", "m", "i", "n", "a", "t", "e">>, <<"$", "x", " ", "=", " ", "1">>}

PlaySpec == ParseInit(PlayFamily) /\ [][ParseNext \/ Play \/ Next]_vars

\* Page lines (plain, a response, an indented response, `|` lines), an
\* actor header, a `key: value` line, a section header and an empty line.
PageFamily ==
    {<<"h", "i">>, <<" ", " ", "-", " ", "W", "o", "w">>, <<"-", " ", "N", "o">>, <<"|", " ", "-", " ", "W">>, <<"|">>, <<"@", "B", "o", "b">>, <<"k", ":", " ", "v">>, <<"#", "A">>, <<>>}

PageSpec == ParseInit(PageFamily) /\ [][ParseNext]_vars

\* Before parse is called: its locals as its setup leaves them, no text yet.
CallInit ==
    /\ status = "started"
    /\ text = <<>>
    /\ lines = <<>>
    /\ line_number = 0
    /\ current_section = DialogueSection(META_SECTION_NAME, <<>>)
    /\ warnings = <<>>
    /\ parsed = <<>>
    /\ dialogue = DefaultDialogue
    /\ PlayIdle
    /\ ValueIdle

\* parse is called with a text (as tests.rs:9 calls it): `lines` iterates
\* over the lines of `from`.
Call(family) ==
    /\ status = "started"
    /\ status' = "parsing"
    /\ \E n \in 0..MaxLines : text' \in [1..n -> family]
    /\ lines' = text'
    /\ UNCHANGED <<dialogue, line_number, current_section, warnings, parsed,
                   play_vars, value_vars>>

\* An actor header, a `key: value` line and a page line.
LoopFamily == {<<"@", "B">>, <<"k", ":", "v">>, <<"h">>}

\* parse runs straight through: once called it runs its loop until
\* the input is used up and returns, so every step is weakly fair.
LoopNext == Call(LoopFamily) \/ ParseNext

LoopSpec == CallInit /\ [][LoopNext]_vars /\ WF_vars(LoopNext)

\* ---------------------------------------------------------- parser/mod.rs
\* The parse of parser/mod.rs. Its Dialogue holds the functions as a list of
\* names and its sections hold pages; a page holds lines, and a line is any
\* variant of its DialogueLine, written with the constructor of the variant
\* of the same name above.
DialoguePage(page_lines) == [lines |-> page_lines]

\* DialogueSection of parser/mod.rs.
PagedSection(n, pages) == [name |-> n, pages |-> pages]

\* Dialogue::default() of parser/mod.rs.
PagedDialogue ==
    [actors |-> EmptyMap, variables |-> EmptyMap, functions |-> <<>>, sections |-> <<>>]

\* parse_variable_value.
parse_variable_value(from_text) ==
    IF ParsesAsBool(from_text) THEN Boolean(from_text = True)
    ELSE IF ParsesAsF64(from_text) THEN Number(F64(from_text))
    ELSE IF IsArrayText(from_text) THEN Array(ArrayElements(from_text))
    ELSE Text(from_text)

\* What parse_line gives: the line it returns (<<>> for None), the dialogue
\* as it leaves it and the lines it prints.
LineParsed(line, d, printed) == [line |-> line, dialogue |-> d, printed |-> printed]

\* parse_line, lines 203-215: a speaker line.
SpeakerLine(speaker_id, spoken, d) ==
    LineParsed(<<SpeakerText(speaker_id, spoken)>>, d,
               IF speaker_id \in DOMAIN d.actors
               THEN <<>>
               ELSE <<<<"W", "A", "R", "N", "I", "N", "G", ":", " ", "A", "c", "t", "o", "r", " ", "d", "e", "f", "i", "n", "i", "t", "i", "o", "n", " ", "n", "o", "t", " ", "f", "o", "u", "n", "d", " ", "(">> \o speaker_id \o <<")">>>>)

\* parse_line, lines 246-258: an assignment.
AssignLine(variable_name, variable_value, d) ==
    LineParsed(<<VariableAssign(variable_name, parse_variable_value(variable_value))>>, d,
               IF variable_name \in DOMAIN d.variables
               THEN <<>>
               ELSE <<<<"W", "A", "R", "N", "I", "N", "G", ":", " ", "S", "t", "a", "t", "i", "c", " ", "v", "a", "r", "i", "a", "b", "l", "e", " ", "d", "e", "f", "i", "n", "i", "t", "i", "o", "n", " ", "n", "o", "t", " ", "f", "o", "u", "n", "d", " ", "[">> \o variable_name \o <<"]">>>>)

\* parse_line from the log prefixes on; line is trimmed.
ParsedLine(line, d) ==
    IF starts_with(line, <<"/", "/", "/">>)
    THEN LineParsed(<<LogInfo(trim(strip_prefix(line, <<"/", "/", "/">>)))>>, d, <<>>)
    ELSE IF starts_with(line, <<"/", "/", "?">>)
    THEN LineParsed(<<LogWarning(trim(strip_prefix(line, <<"/", "/", "?">>)))>>, d, <<>>)
    ELSE IF starts_with(line, <<"/", "/", "!">>)
    THEN LineParsed(<<LogError(trim(strip_prefix(line, <<"/", "/", "!">>)))>>, d, <<>>)
    ELSE IF starts_with(line, <<"/", "/">>)
    THEN LineParsed(<<Comment(trim(strip_prefix(line, <<"/", "/">>)))>>, d, <<>>)
    ELSE IF starts_with(line, <<"@">>) /\ contains(Tail(line), ":")
    THEN SpeakerLine(to_lowercase(trim(split_once(Tail(line), ":")[1])),
                     trim(split_once(Tail(line), ":")[2]), d)
    ELSE IF starts_with(line, <<"!">>)
    THEN LineParsed(<<>>, [d EXCEPT !.functions = Append(@, trim(Tail(line)))], <<>>)
    ELSE IF starts_with(line, <<"$">>) /\ contains(Tail(line), ":")
    THEN LineParsed(<<>>,
                    [d EXCEPT !.variables =
                        Insert(@, trim(to_lowercase(trim(split_once(Tail(line), ":")[1]))),
                               parse_variable_value(trim(split_once(Tail(line), ":")[2])))],
                    <<>>)
    ELSE IF starts_with(line, <<"$">>) /\ contains(Tail(line), "=")
    THEN AssignLine(to_lowercase(trim(split_once(Tail(line), "=")[1])),
                    trim(split_once(Tail(line), "=")[2]), d)
    ELSE IF starts_with(line, <<"-">>)
    THEN LineParsed(<<Response(trim(Tail(line)), <<>>)>>, d, <<>>)
    ELSE LineParsed(<<LineText(line)>>, d, <<>>)

\* parse_line: the page-extension mark is taken off a trimmed line, and a
\* line that is only the mark gives None.
parse_line(line, d) ==
    IF starts_with(trim(line), <<"|">>)
    THEN IF Tail(trim(line)) = <<>>
         THEN LineParsed(<<>>, d, <<>>)
         ELSE ParsedLine(trim(Tail(trim(line))), d)
    ELSE ParsedLine(trim(line), d)

\* commit_page, on the locals of parse: a page with lines is pushed to the
\* section and a new page is begun.
commit_page(st) ==
    IF st.current_page = <<>>
    THEN st
    ELSE [st EXCEPT !.current_section.pages = Append(@, DialoguePage(st.current_page)),
                    !.current_page = <<>>]

\* parse, lines 90-107: a section that has pages is pushed and a new one
\* is begun; the page has been committed.
BeginSection(st, section_name) ==
    [st EXCEPT !.dialogue.sections =
                   IF st.current_section.pages = <<>> THEN @ ELSE Append(@, st.current_section),
               !.current_section = PagedSection(section_name, <<>>)]

\* parse, lines 117-137: the sub-iteration over the lines after an actor
\* header; the properties collected and the lines left in the iterator.
RECURSIVE PagedProperties(_, _)
PagedProperties(rest, properties) ==
    IF rest = <<>>
    THEN [properties |-> properties, lines |-> rest]
    ELSE IF \/ trim(Head(rest)) = <<>>
            \/ starts_with(Head(rest), <<"@">>)
            \/ starts_with(Head(rest), <<"#">>)
    THEN [properties |-> properties, lines |-> rest]
    ELSE IF ~contains(Head(rest), ":")
    THEN [properties |-> properties, lines |-> Tail(rest)]
    ELSE PagedProperties(
             Tail(rest),
             Insert(properties,
                    to_lowercase(trim(split_once(Head(rest), ":")[1])),
                    parse_variable_value(trim(split_once(Head(rest), ":")[2]))))

\* parse, lines 139-145: the actor is inserted under its lowercased name.
WithActor(st, actor_name, properties) ==
    [st EXCEPT !.dialogue.actors =
                   Insert(@, to_lowercase(actor_name), DialogueActor(actor_name, properties))]

\* parse, lines 152-154: the line parse_line returns is pushed to the page.
WithLine(st, result) ==
    [st EXCEPT !.dialogue = result.dialogue,
               !.current_page = @ \o result.line,
               !.printed = @ \o result.printed]

\* The main loop of parse, on its locals and the lines left in the iterator.
RECURSIVE ParseLoop(_, _)
ParseLoop(st, rest) ==
    IF rest = <<>>
    THEN st
    ELSE IF trim(Head(rest)) = <<>>
    THEN ParseLoop(commit_page(st), Tail(rest))
    ELSE IF starts_with(Head(rest), <<"#">>)
    THEN ParseLoop(BeginSection(commit_page(st), trim(Tail(Head(rest)))), Tail(rest))
    ELSE IF starts_with(Head(rest), <<"@">>) /\ ~contains(Tail(Head(rest)), ":")
    THEN ParseLoop(WithActor(st, trim(Tail(Head(rest))),
                             PagedProperties(Tail(rest), EmptyMap).properties),
                   PagedProperties(Tail(rest), EmptyMap).lines)
    ELSE ParseLoop(WithLine(st, parse_line(Head(rest), st.dialogue)), Tail(rest))

\* parse, lines 157-161: the last page is committed and the last section is
\* pushed, with or without pages.
Finished(st) ==
    [dialogue |-> [st.dialogue EXCEPT !.sections = Append(@, st.current_section)],
     printed |-> st.printed]

\* parse of parser/mod.rs, on the lines of the text: the dialogue it returns
\* in Ok and the lines it prints.
parse(from_lines) ==
    Finished(commit_page(ParseLoop([dialogue |-> PagedDialogue,
                                    current_section |-> PagedSection(META_SECTION_NAME, <<>>),
                                    current_page |-> <<>>,
                                    printed |-> <<>>],
                                   from_lines)))

\* A header, an actor header, a spoken line, a `key: value` line, a jump, a
\* page extension, a function, a declaration, an assignment in another
\* case, and an empty line.
PagedFamily ==
    {<<"#", " ", "A">>, <<"@", "B">>, <<"@", "b", ":", " ", "h", "i">>,
     <<"k", ":", " ", "v">>, <<"=", ">", " ", "A">>, <<"|", " ", "m", "o", "r", "e">>,
     <<"!", "f">>, <<"$", "x", ":", " ", "1">>, <<"$", "X", " ", "=", " ", "2">>, <<>>}

\* parser/mod.rs::parse is called with a text and returns: `dialogue` is
\* the Dialogue it returns and `warnings` holds the lines it printed.
ParsePaged ==
    /\ status = "started"
    /\ \E n \in 0..MaxLines : text' \in [1..n -> PagedFamily]
    /\ dialogue' = parse(text').dialogue
    /\ warnings' = parse(text').printed
    /\ status' = "returned"
    /\ UNCHANGED <<lines, line_number, current_section, parsed, play_vars, value_vars>>

PagedSpec == CallInit /\ [][ParsePaged]_vars

\* Lines of the syntax parse has no classifier for: annotations, conditional
\* and loop blocks, interpolation and rich text (tests.rs 321-416).
SyntaxFamily == {<<"[", "m", "=", "i", "]">>, <<"[", "i", "f", "=", "$", "v", "]">>, <<"~", " ", "E">>, <<"~">>, <<"T", " ", "{", "$", "v", "}">>, <<"*", "b", "*">>}

SyntaxSpec == ParseInit(SyntaxFamily) /\ [][ParseNext]_vars

\* Function definitions without and with result and arguments (an argument
\* without value, an empty argument list, a `:` inside the argument list),
\* names in both cases, a page line and a header.
FunctionFamily ==
    {<<"!", "f">>, <<"!", "F", ":", " ", "1">>, <<"!", "f", "(", "a", "=", "1", ")">>, <<"!", "G", "(", "a", ",", " ", "B", "=", "x", ")", ":", " ", "n", "o">>, <<"!", "f", "(", ")">>, <<"!", "f", "(", "a", ":", "b", ")">>, <<"h", "i">>, <<"#", "A">>}

FunctionSpec == ParseInit(FunctionFamily) /\ [][ParseNext]_vars

\* Names written with capitals: an actor, properties (one of them the name
\* override), a declaration, an assignment and a function, with a page line
\* and a header.
CaseFamily ==
    {<<"@", "B", "o", "b">>, <<"N", "a", "m", "e", ":", " ", "R", "o", "b">>, <<"K", ":", " ", "V">>, <<"$", "X", ":", " ", "1">>, <<"$", "É", "Σ", " ", "=", " ", "2">>, <<"!", "F", "(", "A", "=", "1", ")">>, <<"h", "i">>, <<"#", "A">>}

CaseSpec == ParseInit(CaseFamily) /\ [][ParseNext]_vars

\* A declaration, an assignment of the declared name with another value, an
\* assignment of an undeclared name, and a line for each of the other arms
\* of play.
AssignFamily ==
    {<<"$", "x", ":", " ", "1">>, <<"$", "x", " ", "=", " ", "2">>, <<"$", "y", " ", "=", " ", "2">>, <<"$", "y", " ", "=", " ", "n", "a", "n">>, <<"h", "i">>, <<"=", ">", " ", "A">>, <<"=", ">", "<", "=", " ", "A">>, <<"=", ">", " ", "e", "n", "d">>, <<"=", ">", " ", "t", "e", "r", "m", "i", "n", "a", "t", "e">>}

AssignSpec == ParseInit(AssignFamily) /\ [][ParseNext \/ Play \/ Next]_vars

\* `$` lines with `:`, with `=`, with both in either order and with neither,
\* a page line and a header.
DollarFamily ==
    {<<"$", "x", ":", " ", "1">>, <<"$", "x", " ", "=", " ", "2">>, <<"$", "x", " ", "=", " ", "a", ":", "b">>, <<"$", "x", ":", " ", "a", "=", "b">>, <<"$", "x">>, <<"h", "i">>, <<"#", "A">>}

DollarSpec == ParseInit(DollarFamily) /\ [][ParseNext]_vars

\* Indented lines that start a construct after trimming, a line of
\* whitespace, an actor header, a `key: value` line and a page line.
IndentFamily ==
    {<<"h", "i">>, <<"@", "B", "o", "b">>, <<"k", ":", " ", "v">>, <<" ", " ", "#", "A">>, <<" ", " ", "$", "x", ":", " ", "1">>, <<" ", " ", "/", "/", " ", "c">>, <<" ", " ", "=", ">", " ", "a">>, <<" ">>}

IndentSpec == ParseInit(IndentFamily) /\ [][ParseNext]_vars

\* Section headers, a page, and jumps and bounces to the sections; a header
\* followed by another header opens a section without steps.
EmptySectionFamily ==
    {<<"#", "A">>, <<"#", "B">>, <<"h", "i">>, <<"=", ">", " ", "A">>, <<"=", ">", " ", "B">>, <<"=", ">", "<", "=", " ", "A">>}

\* parse, then the arms of play that these documents reach.
EmptySectionNext ==
    ParseNext \/ Play \/ Start \/ TickPlain \/ TickSectionJump \/ TickSectionBounce

EmptySectionSpec == ParseInit(EmptySectionFamily) /\ [][EmptySectionNext]_vars

\* Lines that warn (a speaker without definition, an assignment without
\* declaration) and lines consumed by a sub-iteration before them.
WarningFamily ==
    {<<"h", "i">>, <<"@", "z", "e", "d", ":", " ", "y", "o">>, <<" ", "@", "z", "e", "d", ":", " ", "y", "o">>, <<"@", "B", "o", "b">>, <<"k", ":", " ", "v">>, <<"$", "y", " ", "=", " ", "1">>, <<>>}

WarningSpec == ParseInit(WarningFamily) /\ [][ParseNext]_vars

\* Sections with pages, a bounce, jumps, `=> end` and `=> terminate`.
DepthFamily ==
    {<<"#", "A">>, <<"#", "B">>, <<"h", "i">>, <<"=", ">", "<", "=", " ", "B">>, <<"=", ">", " ", "A">>, <<"=", ">", " ", "e", "n", "d">>, <<"=", ">", " ", "t", "e", "r", "m", "i", "n", "a", "t", "e">>}

\* parse, then the arms of play that these documents reach.
DepthNext ==
    \/ ParseNext
    \/ Play
    \/ Start
    \/ TickPlain
    \/ TickSectionJump
    \/ TickSectionBounce
    \/ TickEndJump
    \/ TickTerminateJump

DepthSpec == ParseInit(DepthFamily) /\ [][DepthNext]_vars

\* ============================================================== claims
\* Reading the log of loop iterations.
Ticks == 1..Len(executed)

StepOf(i) == executed[i].state.step

\* The work stack as tick i left it.
StackAfter(i) ==
    IF i < Len(executed)
    THEN Append(executed[i + 1].frames, executed[i + 1].state)
    ELSE dialogue_stack

\* The variable table as tick i left it.
VariablesAfter(i) ==
    IF i < Len(executed) THEN executed[i + 1].variables ELSE dialogue.variables

\* Tick i was the last one and the session is over.
EndedAt(i) == i = Len(executed) /\ status = "completed"

\* Tick i dropped its branch: nothing was pushed, the top return frame (if
\* any) is what runs next, and without one the session ends.
BranchEndedAt(i) ==
    /\ StackAfter(i) = executed[i].frames
    /\ IF executed[i].frames = <<>>
       THEN EndedAt(i)
       ELSE /\ i = Len(executed) => status = "running"
            /\ i < Len(executed) =>
                   /\ executed[i + 1].state = Last(executed[i].frames)
                   /\ executed[i + 1].frames = Front(executed[i].frames)

\* The successor by position: step k+1 of section s, else the first step of
\* section s+1, else none.
PositionalSuccessor(d, s, k) ==
    IF k + 1 <= Len(d.sections[s].steps)
    THEN <<DialogueState(d.sections[s], d.sections[s].steps[k + 1])>>
    ELSE IF s + 1 <= Len(d.sections) /\ d.sections[s + 1].steps # <<>>
         THEN <<DialogueState(d.sections[s + 1], d.sections[s + 1].steps[1])>>
         ELSE <<>>

NavigationKinds == {"SectionJump", "SectionBounce", "EndJump", "TerminateJump"}

\* ---------------------------------------------------------------- C1
\* C1: after a SectionBounce to a resolvable section T whose steps run
\* straight through (no navigation step, no two equal steps), the step
\* executed right after T's last step is the fall-through successor of the
\* bounce step, and the session does not stop before executing it.
C1_BounceReturnsAfterTarget ==
    \A i \in Ticks :
        (/\ StepOf(i).kind = "SectionBounce"
         /\ Redirect(input, StepOf(i).arg) # <<>>
         /\ ~FindNextPanics(executed[i].state, input)
         /\ find_next_state(executed[i].state, input) # <<>>)
        => LET T == input.sections[FindSection(input, StepOf(i).arg)]
               n == Len(T.steps)
           IN (/\ \A k \in 1..n : T.steps[k].kind \notin NavigationKinds
               /\ \A k, l \in 1..n : k # l => T.steps[k] # T.steps[l]
               /\ i + n <= Len(executed)
               /\ executed[i + n].state = DialogueState(T, T.steps[n]))
              => /\ i + n = Len(executed) => status = "running"
                 /\ i + n < Len(executed) =>
                        executed[i + n + 1].state =
                            find_next_state(executed[i].state, input)[1]

\* ---------------------------------------------------------------- C2
\* C2: an EndJump tick pushes nothing; with a return frame pending the next
\* step executed is the top frame, which leaves the stack; with none pending
\* the session ends and no further step is executed.
C2_EndJumpPopsOrEnds ==
    \A i \in Ticks : StepOf(i).kind = "EndJump" => BranchEndedAt(i)

\* An EndJump ran with a frame pending and that frame was resumed.
C2_Witness ==
    \E i \in Ticks :
        /\ StepOf(i).kind = "EndJump"
        /\ executed[i].frames # <<>>
        /\ i < Len(executed)

\* ---------------------------------------------------------------- C3
\* C3: once a TerminateJump is executed no step is executed any more,
\* whatever is pending on the stack.
C3_TerminateStopsEverything ==
    \A i \in Ticks : StepOf(i).kind = "TerminateJump" => EndedAt(i)

\* A TerminateJump ran inside a bounced section, a return frame pending.
C3_Witness ==
    \E i \in Ticks :
        /\ StepOf(i).kind = "TerminateJump"
        /\ executed[i].frames # <<>>
        /\ dialogue_stack # <<>>

\* ---------------------------------------------------------------- C4
\* C4 as stated: a SectionBounce whose target names no section pushes no
\* return frame and is followed by its fall-through successor, like a step
\* without navigation behaviour.
C4_UnresolvedBounceFallsThrough ==
    \A i \in Ticks :
        (/\ StepOf(i).kind = "SectionBounce"
         /\ FindSection(input, StepOf(i).arg) = 0
         /\ ~FindNextPanics(executed[i].state, input))
        => StackAfter(i) = executed[i].frames \o find_next_state(executed[i].state, input)

\* C4 as amended: a SectionBounce whose target names no section pushes
\* nothing at all, neither a return frame nor a next state: its branch ends
\* as for an EndJump, and the variable table is unchanged.
C4_UnresolvedBounceEndsBranch ==
    \A i \in Ticks :
        (StepOf(i).kind = "SectionBounce" /\ FindSection(input, StepOf(i).arg) = 0)
        => BranchEndedAt(i) /\ VariablesAfter(i) = executed[i].variables

\* An unresolved bounce was executed although the bounce step had a
\* fall-through successor.
C4_Witness ==
    \E i \in Ticks :
        /\ StepOf(i).kind = "SectionBounce"
        /\ FindSection(input, StepOf(i).arg) = 0
        /\ find_next_state(executed[i].state, input) # <<>>

\* ---------------------------------------------------------------- C5
\* C5: a SectionJump whose target names no section pushes nothing, so its
\* fall-through successor is not executed because of that tick: the branch
\* ends as for an EndJump, and the variable table is unchanged.
C5_UnresolvedJumpEndsBranch ==
    \A i \in Ticks :
        (StepOf(i).kind = "SectionJump" /\ FindSection(input, StepOf(i).arg) = 0)
        => BranchEndedAt(i) /\ VariablesAfter(i) = executed[i].variables

\* An unresolved jump was executed although the jump step had a
\* fall-through successor.
C5_Witness ==
    \E i \in Ticks :
        /\ StepOf(i).kind = "SectionJump"
        /\ FindSection(input, StepOf(i).arg) = 0
        /\ find_next_state(executed[i].state, input) # <<>>

\* ---------------------------------------------------------------- C6
\* C6: in a document as parse returns it, where no section is without steps
\* (a section is pushed only when its steps are not empty), a SectionJump
\* whose target names a section is followed by the first step of the first
\* section of that exact name, and leaves the return frames as they were:
\* the tick does not panic, and the stack it leaves is the frames below the
\* jump with the target's first state on top.
C6_ResolvedJumpRedirects ==
    (\A s \in 1..Len(input.sections) : input.sections[s].steps # <<>>)
    => \A i \in Ticks :
           (StepOf(i).kind = "SectionJump" /\ FindSection(input, StepOf(i).arg) # 0)
           => LET T == input.sections[FindSection(input, StepOf(i).arg)]
              IN /\ status # "panicked"
                 /\ StackAfter(i) = Append(executed[i].frames, DialogueState(T, T.steps[1]))
                 /\ i < Len(executed) => executed[i + 1].state = DialogueState(T, T.steps[1])

\* A resolved jump was executed while a return frame was pending and the
\* jump step had a fall-through successor of its own, in a document whose
\* sections all have steps and where another section's name differs from
\* the target only by case; the target's first step was executed next.
C6_Witness ==
    /\ \A s \in 1..Len(input.sections) : input.sections[s].steps # <<>>
    /\ \E s \in 1..Len(input.sections) : input.sections[s].name = <<"a">>
    /\ \E i \in Ticks :
           /\ StepOf(i) = SectionJump(<<"A">>)
           /\ FindSection(input, <<"A">>) # 0
           /\ executed[i].frames # <<>>
           /\ find_next_state(executed[i].state, input) # <<>>
           /\ i < Len(executed)
           /\ executed[i + 1].state.section.name = <<"A">>

\* ---------------------------------------------------------------- C7
\* C7: whenever the state about to be executed is the step at position k of
\* section s, its fall-through successor is the step at position k+1 of s,
\* else the first step of section s+1, else none; equal steps and equal
\* sections included.
C7_FallThroughIsPositional ==
    (status = "running" /\ dialogue_stack # <<>>)
    => \A s \in 1..Len(input.sections) :
           \A k \in 1..Len(input.sections[s].steps) :
               Current = DialogueState(input.sections[s], input.sections[s].steps[k])
               => /\ ~FindNextPanics(Current, input)
                  /\ find_next_state(Current, input) = PositionalSuccessor(input, s, k)

\* ---------------------------------------------------------------- C8
\* The states of a document in document order.
RECURSIVE FlatStates(_, _)
FlatStates(d, s) ==
    IF s > Len(d.sections)
    THEN <<>>
    ELSE [k \in 1..Len(d.sections[s].steps) |->
             DialogueState(d.sections[s], d.sections[s].steps[k])]
         \o FlatStates(d, s + 1)

\* No navigation step, at least one section, no empty section.
StraightDocument(d) ==
    /\ d.sections # <<>>
    /\ \A s \in 1..Len(d.sections) :
           /\ d.sections[s].steps # <<>>
           /\ \A k \in 1..Len(d.sections[s].steps) :
                  d.sections[s].steps[k].kind \notin NavigationKinds

\* C8: on a document without navigation steps and without empty sections
\* the steps executed so far are the first steps of the document in document
\* order, each once, and play ends right after the last one.
C8_StraightDocumentRunsOnce ==
    (StraightDocument(input) /\ status # "ready")
    => LET flat == FlatStates(input, 1)
       IN /\ Len(executed) <= Len(flat)
          /\ \A i \in Ticks : executed[i].state = flat[i]
          /\ status # "panicked"
          /\ status = "completed" <=> Len(executed) = Len(flat)

\* ---------------------------------------------------------------- C9
\* The number of states tick i left on the stack above the frames it found.
Pushed(i) == Len(StackAfter(i)) - Len(executed[i].frames)

\* Tick i aborted play (the panic of find_next_state).
PanickedAt(i) == i = Len(executed) /\ status = "panicked"

\* The target of the jump or bounce of tick i gives no state to go to.
DeadTarget(i) ==
    /\ StepOf(i).kind \in {"SectionJump", "SectionBounce"}
    /\ Redirect(input, StepOf(i).arg) = <<>>

\* The return frame a bounce tick pushes: the successor of a resolved bounce.
ReturnFrame(i) ==
    IF StepOf(i).kind = "SectionBounce" /\ ~DeadTarget(i)
    THEN find_next_state(executed[i].state, input)
    ELSE <<>>

\* Tick i has no next state: the arm left the loop body early, or the step
\* does not redirect and has no fall-through successor.
NoNextState(i) ==
    \/ StepOf(i).kind \in {"EndJump", "TerminateJump"}
    \/ DeadTarget(i)
    \/ /\ StepOf(i).kind \notin NavigationKinds
       /\ find_next_state(executed[i].state, input) = <<>>

\* C9 as stated: EndJump and TerminateJump ticks push nothing, every other
\* tick pushes a next state unless it redirects nowhere and its step has no
\* fall-through successor, and a tick that pushes nothing ends the loop.
C9_OneNextStateOrTermination ==
    \A i \in Ticks :
        ~PanickedAt(i) =>
            /\ StepOf(i).kind \in {"EndJump", "TerminateJump"} => Pushed(i) = 0
            /\ (/\ StepOf(i).kind \notin {"EndJump", "TerminateJump"}
                /\ ~(/\ StepOf(i).kind \notin NavigationKinds \/ DeadTarget(i)
                     /\ find_next_state(executed[i].state, input) = <<>>))
               => Pushed(i) >= 1
            /\ Pushed(i) = 0 => EndedAt(i)

\* C9 as amended: a tick pushes at most one next state, above the return
\* frame of a resolved bounce; it pushes none exactly when its step is
\* EndJump or TerminateJump, a jump or bounce without a state to go to, or a
\* non-redirecting step without successor; the loop ends at a TerminateJump
\* or when the stack is left empty, and goes on with the top frame otherwise.
\* A tick aborts play only in find_next_state.
C9_TickPushesAndTermination ==
    \A i \in Ticks :
        IF PanickedAt(i)
        THEN /\ FindNextPanics(executed[i].state, input)
             /\ StepOf(i).kind \notin {"EndJump", "TerminateJump"}
             /\ ~DeadTarget(i)
        ELSE /\ Pushed(i) - Len(ReturnFrame(i)) = (IF NoNextState(i) THEN 0 ELSE 1)
             /\ SubSeq(StackAfter(i), 1, Len(executed[i].frames) + Len(ReturnFrame(i)))
                    = executed[i].frames \o ReturnFrame(i)
             /\ i = Len(executed) =>
                    (status = "completed"
                        <=> (StepOf(i).kind = "TerminateJump" \/ dialogue_stack = <<>>))
             /\ i < Len(executed) => StepOf(i).kind # "TerminateJump"

\* A step that is neither EndJump nor TerminateJump pushed nothing while a
\* return frame was pending, and the loop went on with that frame.
C9_Witness ==
    \E i \in Ticks :
        /\ StepOf(i).kind \notin {"EndJump", "TerminateJump"}
        /\ Pushed(i) = 0
        /\ executed[i].frames # <<>>
        /\ i < Len(executed)

\* ---------------------------------------------------------------- C10
\* The document gives play no first step.
NoFirstStep(d) == d.sections = <<>> \/ d.sections[1].steps = <<>>

\* C10: play fails before executing anything and without touching the
\* dialogue when the document has no section or an empty first section;
\* otherwise the first state executed is the first step of the first
\* section, on an otherwise empty stack.
C10_StartsAtFirstStepOrFails ==
    status # "ready" =>
        IF NoFirstStep(input)
        THEN status = "panicked" /\ executed = <<>> /\ dialogue = input
        ELSE LET first_state ==
                     DialogueState(input.sections[1], input.sections[1].steps[1])
             IN /\ executed = <<>> =>
                       status = "running" /\ dialogue_stack = <<first_state>>
                /\ executed # <<>> =>
                       /\ executed[1].state = first_state
                       /\ executed[1].frames = <<>>
                       /\ executed[1].variables = input.variables

\* play was started on a document without sections, as the parser returns
\* for an input without steps, and failed.
C10_Witness ==
    /\ input.sections = <<>>
    /\ status = "panicked"

\* ------------------------------------------------------------------- C16
\* The text between the brackets of an array text, cut at its commas.
Fields(s) == split(SubSeq(s, 2, Len(s) - 1), ",")

\* The fields that are not blank, in order.
RECURSIVE KeptFields(_)
KeptFields(fields) ==
    IF fields = <<>> THEN <<>>
    ELSE IF \A i \in 1..Len(Head(fields)) : Head(fields)[i] \in Whitespace
         THEN KeptFields(Tail(fields))
         ELSE <<Head(fields)>> \o KeptFields(Tail(fields))

\* C16: parse_value applies a strict precedence: Boolean exactly for the
\* case-sensitive literals true and false; otherwise Number when the text
\* parses as a float; otherwise, when the text is wrapped in [ and ], an
\* Array of the comma-split, trimmed, non-empty elements kept as raw strings;
\* otherwise Text of the input verbatim.
C16_ValuePrecedence ==
    status = "valued" =>
        LET v == inferred[1]
            wrapped == Len(from) >= 2 /\ Head(from) = "[" /\ Last(from) = "]"
        IN /\ v.tag = "Boolean" <=> from \in {True, False}
           /\ v.tag = "Boolean" => (v.bool <=> from = True)
           /\ v.tag = "Number" <=> (from \notin {True, False} /\ ParsesAsF64(from))
           /\ v.tag = "Number" => v.num = F64(from)
           /\ v.tag = "Array" <=>
                  (from \notin {True, False} /\ ~ParsesAsF64(from) /\ wrapped)
           /\ v.tag = "Array" =>
                  /\ Len(v.elements) = Len(KeptFields(Fields(from)))
                  /\ \A i \in 1..Len(v.elements) :
                         /\ v.elements[i] = trim(KeptFields(Fields(from))[i])
                         /\ v.elements[i] # <<>>
           /\ v.tag = "Text" <=>
                  (from \notin {True, False} /\ ~ParsesAsF64(from) /\ ~wrapped)
           /\ v.tag = "Text" => v.text = from

\* parse_value was given [true,1] and kept both elements as raw strings.
C16_Witness ==
    /\ status = "valued"
    /\ from = <<"[">> \o True \o <<",", "1", "]">>
    /\ inferred = <<Array(<<True, <<"1">>>>)>>

\* ------------------------------------------------------------------- C11
\* The main loop is about to take a section header.
AtHeader == status = "parsing" /\ lines # <<>> /\ IsSection(trim(Head(lines)))

\* parse is about to return.
AtReturn == status = "parsing" /\ lines = <<>>

\* C11 as stated: the section in progress at the end of the input is always
\* appended, so the returned document has at least one section.
C11_LastSectionAlwaysAppended ==
    status = "parsed" =>
        /\ dialogue.sections # <<>>
        /\ Last(dialogue.sections) = current_section

\* C11, amended: a section is appended only when it has at least one step,
\* whether it is closed by a following header or is in progress at the end
\* of the input; the returned document has no section when no step was parsed.
C11_SectionAppendedOnlyWithSteps ==
    [][/\ (AtHeader \/ AtReturn) =>
              dialogue'.sections =
                  IF current_section.steps = <<>>
                  THEN dialogue.sections
                  ELSE Append(dialogue.sections, current_section)
       /\ ~(AtHeader \/ AtReturn) => dialogue'.sections = dialogue.sections]_vars

\* A header closed a section without steps, a header closed one with steps,
\* and the input ended in a section without steps: one section is returned.
C11_Witness ==
    /\ status = "parsed"
    /\ text = <<<<"#", "A">>, <<"h", "i">>, <<"#", " ", "b">>>>
    /\ dialogue.sections = <<DialogueSection(<<"A">>, <<Page(<<LineText(<<"h", "i">>)>>)>>)>>
    /\ current_section = DialogueSection(<<"b">>, <<>>)

\* ------------------------------------------------------------------- C12
\* Reading the log of main-loop iterations.
Iterations == 1..Len(parsed)

\* The parser's state as iteration i left it (the sections of the document
\* are those before the final push).
ParsedAfter(i) ==
    IF i < Len(parsed)
    THEN parsed[i + 1]
    ELSE [line |-> <<>>, lines |-> lines, dialogue |-> dialogue,
          current_section |-> current_section, warnings |-> warnings]

\* The steps iteration i pushed on the section in progress.
StepsPushed(i) ==
    SubSeq(ParsedAfter(i).current_section.steps,
           Len(parsed[i].current_section.steps) + 1,
           Len(ParsedAfter(i).current_section.steps))

\* The iterations that took a section header, and the k-th of them.
Headers == {i \in Iterations : starts_with(parsed[i].line, <<"#">>)}

Header(k) == CHOOSE i \in Headers : Cardinality({j \in Headers : j < i}) = k - 1

\* The sections in progress one after the other: the one each header closed,
\* then the one in progress at the end of the input.
Segments ==
    [k \in 1..(Cardinality(Headers) + 1) |->
        IF k <= Cardinality(Headers) THEN parsed[Header(k)].current_section
        ELSE current_section]

HasSteps(section) == section.steps # <<>>

\* C12: the steps before the first header are stored in input order in a
\* section named Meta that comes first; the sections follow in the order of
\* their headers; when no step precedes the first header there is no section
\* for that part of the input.
C12_MetaFirstThenHeaderOrder ==
    /\ \A i \in Iterations :
           IF i \in Headers
           THEN ParsedAfter(i).current_section =
                    DialogueSection(trim(Tail(parsed[i].line)), <<>>)
           ELSE /\ ParsedAfter(i).current_section.name = parsed[i].current_section.name
                /\ Len(StepsPushed(i)) <= 1
                /\ ParsedAfter(i).current_section.steps =
                       parsed[i].current_section.steps \o StepsPushed(i)
    /\ status = "parsed" =>
           /\ Segments[1].name = META_SECTION_NAME
           /\ dialogue.sections = SelectSeq(Segments, HasSteps)
           /\ Segments[1].steps # <<>> => dialogue.sections[1] = Segments[1]
           /\ Segments[1].steps = <<>> =>
                  Len(dialogue.sections) =
                      Cardinality({k \in 2..Len(Segments) : Segments[k].steps # <<>>})

\* Two steps before the first header and one after it: Meta, then A.
C12_Witness ==
    /\ status = "parsed"
    /\ text = <<<<"h", "i">>, <<"/", "/", " ", "c">>, <<"#", "A">>, <<"=", ">", " ", "A">>>>
    /\ dialogue.sections =
           <<DialogueSection(META_SECTION_NAME, <<Page(<<LineText(<<"h", "i">>)>>), Comment(<<"c">>)>>),
             DialogueSection(<<"A">>, <<SectionJump(<<"A">>)>>)>>

\* ------------------------------------------------------------------- C13
\* The parts of a `$` line before and after the first occurrence of c.
Before(line, c) == SubSeq(line, 2, FirstIndex(line, c) - 1)

After(line, c) == SubSeq(line, FirstIndex(line, c) + 1, Len(line))

\* Iteration i took a `$name: value` line / a `$name = value` line.
Declares(i) == starts_with(parsed[i].line, <<"$">>) /\ contains(parsed[i].line, ":")

Assigns(i) ==
    starts_with(parsed[i].line, <<"$">>) /\ contains(parsed[i].line, "=")
        /\ ~contains(parsed[i].line, ":")

\* The document did not change in iteration i: its three tables, and its
\* sections as long as the final push has not happened.
SameTables(i) ==
    /\ ParsedAfter(i).dialogue.actors = parsed[i].dialogue.actors
    /\ ParsedAfter(i).dialogue.variables = parsed[i].dialogue.variables
    /\ ParsedAfter(i).dialogue.functions = parsed[i].dialogue.functions

SameSections(i) ==
    status = "parsing" \/ i < Len(parsed) =>
        ParsedAfter(i).dialogue.sections = parsed[i].dialogue.sections

\* C13: a declaration line only sets variables[name] and emits no step; an
\* assignment line only emits one VariableAssign step in the section in
\* progress and never changes the variables map.
C13_DeclarationAndAssignmentIndependent ==
    \A i \in Iterations :
        /\ Declares(i) =>
               LET name == to_lowercase(trim(Before(parsed[i].line, ":")))
                   declared == parse_value(trim(After(parsed[i].line, ":")))
               IN /\ DOMAIN ParsedAfter(i).dialogue.variables =
                         DOMAIN parsed[i].dialogue.variables \cup {name}
                  /\ ParsedAfter(i).dialogue.variables[name] = declared
                  /\ \A k \in DOMAIN parsed[i].dialogue.variables \ {name} :
                         ParsedAfter(i).dialogue.variables[k] = parsed[i].dialogue.variables[k]
                  /\ ParsedAfter(i).dialogue.actors = parsed[i].dialogue.actors
                  /\ ParsedAfter(i).dialogue.functions = parsed[i].dialogue.functions
                  /\ SameSections(i)
                  /\ ParsedAfter(i).current_section = parsed[i].current_section
                  /\ ParsedAfter(i).warnings = parsed[i].warnings
        /\ Assigns(i) =>
               /\ StepsPushed(i) =
                      <<VariableAssign(to_lowercase(trim(Before(parsed[i].line, "="))),
                                       parse_value(trim(After(parsed[i].line, "="))))>>
               /\ ParsedAfter(i).current_section.steps =
                      parsed[i].current_section.steps \o StepsPushed(i)
               /\ SameTables(i)
               /\ SameSections(i)

\* `$x: 1` then `$x = 2`: variables[x] is 1 and the document holds one
\* VariableAssign{x, 2} step.
C13_Witness ==
    /\ status = "parsed"
    /\ text = <<<<"$", "x", ":", " ", "1">>, <<"$", "x", " ", "=", " ", "2">>>>
    /\ dialogue.variables = [k \in {<<"x">>} |-> Number(F64(<<"1">>))]
    /\ dialogue.sections =
           <<DialogueSection(META_SECTION_NAME, <<VariableAssign(<<"x">>, Number(F64(<<"2">>)))>>)>>

\* ------------------------------------------------------------------- C14
\* C14: an assignment line adds a warning if and only if its lowercased name
\* is not a key of the variables map built from the earlier declarations; the
\* VariableAssign step is emitted in every case.
C14_WarningIffLowercasedNameUndeclared ==
    \A i \in Iterations :
        Assigns(i) =>
            LET name == to_lowercase(trim(Before(parsed[i].line, "=")))
            IN /\ Len(StepsPushed(i)) = 1
               /\ StepsPushed(i)[1].kind = "VariableAssign"
               /\ IF name \in DOMAIN parsed[i].dialogue.variables
                  THEN ParsedAfter(i).warnings = parsed[i].warnings
                  ELSE Len(ParsedAfter(i).warnings) = Len(parsed[i].warnings) + 1

\* ------------------------------------------------------------------- C17
\* The 1-based position, in the text, of the line iteration i took.
Position(i) == Len(text) - Len(parsed[i].lines) + 1

\* The line at position p of the text was taken by the main loop.
TakenByMainLoop(p) == \E i \in Iterations : Position(i) = p

\* The text of a line after its first n characters, trimmed.
Remainder(line, n) == trim(SubSeq(line, n + 1, Len(line)))

\* C17: a `=><=` line always yields SectionBounce(trimmed target), never a
\* jump; a `=>` line that is not a `=><=` line yields EndJump when its trimmed
\* target is end in any case, TerminateJump when it is terminate in any case,
\* and SectionJump(target as written) otherwise; each such line yields
\* exactly one step.
C17_BounceAndJumpLines ==
    /\ \A i \in Iterations :
           LET line == parsed[i].line
           IN /\ starts_with(line, <<"=", ">", "<", "=">>) =>
                     StepsPushed(i) = <<SectionBounce(Remainder(line, 4))>>
              /\ starts_with(line, <<"=", ">">>) /\ ~starts_with(line, <<"=", ">", "<", "=">>) =>
                     StepsPushed(i) =
                         <<IF to_lowercase(Remainder(line, 2)) = <<"e", "n", "d">> THEN EndJump
                           ELSE IF to_lowercase(Remainder(line, 2)) = <<"t", "e", "r", "m", "i", "n", "a", "t", "e">>
                                THEN TerminateJump
                                ELSE SectionJump(Remainder(line, 2))>>
    /\ status = "parsed" =>
           \A p \in 1..Len(text) : starts_with(text[p], <<"=", ">">>) => TakenByMainLoop(p)

\* A bounce to a section named End, a jump to END and a jump to a section.
C17_Witness ==
    /\ status = "parsed"
    /\ text = <<<<"=", ">", "<", "=", " ", "E", "n", "d">>, <<"=", ">", " ", "a">>, <<"=", ">", " ", "E", "N", "D">>>>
    /\ dialogue.sections =
           <<DialogueSection(META_SECTION_NAME,
                             <<SectionBounce(<<"E", "n", "d">>), SectionJump(<<"a">>), EndJump>>)>>

\* ------------------------------------------------------------------- C18
\* C18: a line starting with `//` yields exactly one step: LogInfo for `///`,
\* LogWarning for `//?`, LogError for `//!` and Comment for any other `//`
\* line; the stored text is the trimmed remainder.
C18_CommentAndLogLines ==
    /\ \A i \in Iterations :
           LET line == parsed[i].line
           IN starts_with(line, <<"/", "/">>) =>
                  StepsPushed(i) =
                      <<IF starts_with(line, <<"/", "/", "/">>) THEN LogInfo(Remainder(line, 3))
                        ELSE IF starts_with(line, <<"/", "/", "?">>) THEN LogWarning(Remainder(line, 3))
                        ELSE IF starts_with(line, <<"/", "/", "!">>) THEN LogError(Remainder(line, 3))
                        ELSE Comment(Remainder(line, 2))>>
    /\ status = "parsed" =>
           \A p \in 1..Len(text) : starts_with(text[p], <<"/", "/">>) => TakenByMainLoop(p)

\* One line of each kind, in one section.
C18_Witness ==
    /\ status = "parsed"
    /\ text = <<<<"/", "/", " ", "c">>, <<"/", "/", "/", " ", "i">>, <<"/", "/", "?", " ", "w">>, <<"/", "/", "!", " ", "e">>>>
    /\ dialogue.sections =
           <<DialogueSection(META_SECTION_NAME,
                             <<Comment(<<"c">>), LogInfo(<<"i">>), LogWarning(<<"w">>), LogError(<<"e">>)>>)>>

\* ------------------------------------------------------------------- C19
\* Iteration i took an `@id` line whose remainder has no `:`.
IsHeader(i) == starts_with(parsed[i].line, <<"@">>) /\ ~contains(parsed[i].line, ":")

\* Iteration i took an `@id: text` line with some text.
IsSpoken(i) ==
    /\ starts_with(parsed[i].line, <<"@">>)
    /\ contains(parsed[i].line, ":")
    /\ trim(After(parsed[i].line, ":")) # <<>>

\* C19: an `@id` line without `:` adds no step and stores the actor under
\* the lowercased id, its display name being the value of its name property
\* when that value is Text and the id as written otherwise; an `@id: text`
\* line stores no actor and becomes a SpeakerText line of a page.
C19_ActorHeaderOrSpokenLine ==
    \A i \in Iterations :
        /\ IsHeader(i) =>
               LET written == trim(Tail(parsed[i].line))
                   id == to_lowercase(written)
                   actors == ParsedAfter(i).dialogue.actors
               IN /\ StepsPushed(i) = <<>>
                  /\ ParsedAfter(i).current_section = parsed[i].current_section
                  /\ DOMAIN actors = DOMAIN parsed[i].dialogue.actors \cup {id}
                  /\ \A k \in DOMAIN parsed[i].dialogue.actors \ {id} :
                         actors[k] = parsed[i].dialogue.actors[k]
                  /\ actors[id].name =
                         IF <<"n", "a", "m", "e">> \in DOMAIN actors[id].properties
                                /\ actors[id].properties[<<"n", "a", "m", "e">>].tag = "Text"
                         THEN actors[id].properties[<<"n", "a", "m", "e">>].text
                         ELSE written
        /\ IsSpoken(i) =>
               /\ SameTables(i)
               /\ Len(StepsPushed(i)) = 1
               /\ StepsPushed(i)[1].kind = "Page"
               /\ StepsPushed(i)[1].arg[1] =
                      SpeakerText(to_lowercase(trim(Before(parsed[i].line, ":"))),
                                  trim(After(parsed[i].line, ":")))

\* A header with a Text name, then a spoken line of that actor.
C19_Witness ==
    /\ status = "parsed"
    /\ text = <<<<"@", "B", "o", "b">>, <<"n", "a", "m", "e", ":", " ", "R", "o", "b">>, <<"@", "b", "o", "b", ":", " ", "h", "i">>>>
    /\ dialogue.actors =
           [k \in {<<"b", "o", "b">>} |->
               DialogueActor(<<"R", "o", "b">>, [p \in {<<"n", "a", "m", "e">>} |-> Text(<<"R", "o", "b">>)])]
    /\ dialogue.sections =
           <<DialogueSection(META_SECTION_NAME, <<Page(<<SpeakerText(<<"b", "o", "b">>, <<"h", "i">>)>>)>>)>>

\* ------------------------------------------------------------------- C20
\* A line stops a property block: it is blank, it starts a new construct,
\* or it has no `:`.
StopsBlock(line) ==
    \/ \A j \in 1..Len(line) : line[j] \in Whitespace
    \/ \E prefix \in {<<"/", "/">>, <<"@">>, <<"#">>, <<"!">>, <<"$">>, <<"=", ">">>} : starts_with(line, prefix)
    \/ ~contains(line, ":")

\* The number of lines of the contiguous run of `key: value` lines at the
\* head of rest.
RECURSIVE RunLength(_)
RunLength(rest) ==
    IF rest = <<>> \/ StopsBlock(Head(rest)) THEN 0 ELSE 1 + RunLength(Tail(rest))

\* C20: the properties of an actor come from the contiguous run of
\* `key: value` lines directly after its header and from no later line.
C20_PropertyBlockIsContiguousRun ==
    \A i \in Iterations :
        IsHeader(i) =>
            LET rest == Tail(parsed[i].lines)
                run == SubSeq(rest, 1, RunLength(rest))
                properties ==
                    ParsedAfter(i).dialogue.actors[to_lowercase(trim(Tail(parsed[i].line)))].properties
            IN /\ DOMAIN properties =
                      {to_lowercase(trim(SubSeq(run[j], 1, FirstIndex(run[j], ":") - 1))) :
                          j \in 1..Len(run)}
               /\ Len(ParsedAfter(i).lines) <= Len(rest) - Len(run)
               /\ Len(ParsedAfter(i).lines) >= Len(rest) - Len(run) - 1

\* A block of one property stopped by a line of whitespace; the `key: value`
\* line after it is not a property.
C20_Witness ==
    /\ status = "parsed"
    /\ text = <<<<"@", "B", "o", "b">>, <<"n", "a", "m", "e", ":", " ", "R", "o", "b">>, <<" ">>, <<"k", ":", " ", "v">>>>
    /\ DOMAIN dialogue.actors[<<"b", "o", "b">>].properties = {<<"n", "a", "m", "e">>}

\* ------------------------------------------------------------------- C15
\* The output line of a stored page line, given the actors of the document.
ExpectedRow(line, actors) ==
    IF line.kind = "SpeakerText"
    THEN IF line.speaker \in DOMAIN actors
         THEN actors[line.speaker].name \o <<":", " ">> \o line.text
         ELSE line.speaker \o <<":", " ">> \o line.text
    ELSE IF line.kind = "Response" THEN <<"-", " ">> \o line.text
    ELSE line.text

\* C15: an `@id: text` page line whose lowercased id is not a key of the actor
\* map at that point adds a warning and is still stored as
\* SpeakerText{lowercased id, text}; at play time a SpeakerText line is
\* printed with the actor's display name when its speaker key is in the actor
\* map and with the stored key otherwise, and the tick does not fail.
C15_UnknownSpeakerWarnsAndPlays ==
    /\ \A i \in Iterations :
           IsSpoken(i) =>
               LET id == to_lowercase(trim(Before(parsed[i].line, ":")))
                   known == Len(parsed[i].warnings)
               IN /\ Len(StepsPushed(i)) = 1
                  /\ StepsPushed(i)[1].kind = "Page"
                  /\ StepsPushed(i)[1].arg[1] =
                         SpeakerText(id, trim(After(parsed[i].line, ":")))
                  /\ SubSeq(ParsedAfter(i).warnings, 1, known) = parsed[i].warnings
                  /\ id \notin DOMAIN parsed[i].dialogue.actors =>
                         /\ Len(ParsedAfter(i).warnings) > known
                         /\ ParsedAfter(i).warnings[known + 1].message =
                                "Actor definition not found"
                         /\ ParsedAfter(i).warnings[known + 1].subject = id
    /\ \A i \in Ticks :
           StepOf(i).kind = "Page" =>
               /\ ~PanickedAt(i)
               /\ Len(executed[i].output) = 1
               /\ split(executed[i].output[1], "\n") =
                      [n \in 1..Len(StepOf(i).arg) |->
                          ExpectedRow(StepOf(i).arg[n], input.actors)]

\* A spoken line of a defined actor is printed with the display name, one of
\* an undefined actor with its key, and parse warned about the latter.
C15_Witness ==
    /\ status = "completed"
    /\ text = <<<<"@", "B", "o", "b">>, <<"n", "a", "m", "e", ":", " ", "R", "o", "b">>, <<"@", "b", "o", "b", ":", " ", "h", "i">>, <<"@", "Z", "e", "d", ":", " ", "y", "o">>>>
    /\ Len(warnings) = 1
    /\ warnings[1].subject = <<"z", "e", "d">>
    /\ Len(executed) = 2
    /\ executed[1].output = <<<<"R", "o", "b", ":", " ", "h", "i">>>>
    /\ executed[2].output = <<<<"z", "e", "d", ":", " ", "y", "o">>>>

\* ------------------------------------------------------------------- C21
\* The number of lines iteration i of the main loop took from the iterator,
\* its sub-iterations included.
Consumed(i) == Len(parsed[i].lines) - Len(ParsedAfter(i).lines)

\* One of the classifiers before parse_page accepts the trimmed line.
Classified(line) ==
    \/ starts_with(line, <<"#">>)
    \/ starts_with(line, <<"@">>) /\ ~contains(line, ":")
    \/ starts_with(line, <<"/", "/">>)
    \/ starts_with(line, <<"!">>)
    \/ starts_with(line, <<"$">>) /\ (contains(line, ":") \/ contains(line, "="))
    \/ starts_with(line, <<"=", ">">>)

\* The line is neither a response nor a line with a speaker.
PlainText(line) ==
    /\ ~starts_with(line, <<"-">>)
    /\ ~(contains(line, ":") /\ trim(After(line, ":")) # <<>>)

\* Every iteration of the main loop takes at least one line and leaves a
\* suffix of the lines it found; an actor block takes one line per property
\* at least; a page takes one line per page line; a line that no classifier
\* accepts becomes the first line of a page, as Text when it is plain.
EveryIterationConsumes ==
    /\ status \in {"started", "parsing", "parsed"}
    /\ \A i \in Iterations :
           /\ Consumed(i) >= 1
           /\ ParsedAfter(i).lines =
                  SubSeq(parsed[i].lines, Consumed(i) + 1, Len(parsed[i].lines))
           /\ IsHeader(i) =>
                  Consumed(i) >= 1 + Cardinality(DOMAIN
                      ParsedAfter(i).dialogue.actors[
                          to_lowercase(trim(Tail(parsed[i].line)))].properties)
           /\ (parsed[i].line # <<>> /\ ~Classified(parsed[i].line)) =>
                  /\ Len(StepsPushed(i)) = 1
                  /\ StepsPushed(i)[1].kind = "Page"
                  /\ Len(StepsPushed(i)[1].arg) = Consumed(i)
                  /\ PlainText(parsed[i].line) =>
                         StepsPushed(i)[1].arg[1] = LineText(parsed[i].line)

\* Every line of the text that no classifier accepts falls back to a Text
\* line of a page: a plain line that is not empty, that none of the
\* classifiers before parse_page accepts and that is not taken as a property
\* of an actor block is a Text line of the page of the iteration that
\* consumed it, whether the main loop took it or a sub-loop did.
EveryLineFallsBack ==
    \A i \in Iterations :
        \A j \in 1..Consumed(i) :
            LET line == trim(parsed[i].lines[j])
            IN (/\ line # <<>>
                /\ ~Classified(line)
                /\ PlainText(line)
                /\ ~(IsHeader(i) /\ j > 1 /\ contains(line, ":")))
               => /\ ~IsHeader(i)
                  /\ Len(StepsPushed(i)) = 1
                  /\ StepsPushed(i)[1].kind = "Page"
                  /\ \E n \in 1..Len(StepsPushed(i)[1].arg) :
                         /\ StepsPushed(i)[1].arg[n].kind = "Text"
                         /\ trim(StepsPushed(i)[1].arg[n].text) = line

\* C21: parse terminates and returns a document for every input: every
\* iteration of the main loop and of the actor-block and page sub-loops
\* consumes at least one line, every line that no classifier accepts falls
\* back to a Text line of a page, and parse eventually returns.
C21_ParseTerminates ==
    /\ []EveryIterationConsumes
    /\ []EveryLineFallsBack
    /\ <>(status = "parsed")

\* ------------------------------------------------------------------- C22
\* C22: input made only of unimplemented syntax (annotation lines,
\* conditional or loop blocks, prose with interpolation or rich-text
\* markers) produces no structure: parse returns the empty default document
\* and no warnings.
C22_UnimplementedSyntaxIsEmpty ==
    status = "parsed" => (dialogue = DefaultDialogue /\ warnings = <<>>)

\* ------------------------------------------------------------------- C23
\* Iteration i of the main loop reached parse_page.
IsPage(i) == parsed[i].line # <<>> /\ ~Classified(parsed[i].line)

\* C23: every line of a page, the first and every continuation line alike,
\* is classified on its whitespace-trimmed form; a line that starts with `-`
\* after trimming becomes a Response whose text is the trimmed label.
C23_PageLinesClassifiedTrimmed ==
    \A i \in Iterations :
        IsPage(i) =>
            \A j \in 1..Len(StepsPushed(i)[1].arg) :
                LET trimmed == trim(parsed[i].lines[j])
                IN /\ StepsPushed(i)[1].arg[j] =
                          parse_text_line(trimmed, parsed[i].dialogue, i).line
                   /\ starts_with(trimmed, <<"-">>) =>
                          StepsPushed(i)[1].arg[j] = Response(trim(Tail(trimmed)), <<>>)

\* ------------------------------------------------------------------- C24
\* The number of lines of the run of `|` lines at the head of rest.
RECURSIVE RunLengthOfPipes(_)
RunLengthOfPipes(rest) ==
    IF rest = <<>> \/ ~starts_with(Head(rest), <<"|">>)
    THEN 0
    ELSE 1 + RunLengthOfPipes(Tail(rest))

\* C24: a line prefixed with `|` is a manual page extension: the prefix is
\* stripped and the remainder is classified as a line of the same page, and
\* a bare `|` line adds no line to the page while keeping the page open, so
\* all `|` lines of a run end up in one Page step.
C24_PipeLinesExtendThePage ==
    \A i \in Iterations :
        IsPage(i) =>
            LET raw == parsed[i].lines
                NotBare(j) == raw[j] # <<"|">>
                kept == SelectSeq([j \in 1..Consumed(i) |-> j], NotBare)
                page_lines == StepsPushed(i)[1].arg
            IN /\ Consumed(i) >= RunLengthOfPipes(raw)
               /\ Len(page_lines) = Len(kept)
               /\ \A n \in 1..Len(kept) :
                      starts_with(raw[kept[n]], <<"|">>) =>
                          page_lines[n] =
                              parse_text_line(trim(Tail(raw[kept[n]])),
                                              parsed[i].dialogue, i).line

\* ------------------------------------------------------------------- C25
\* Iteration i took a `!` line.
DefinesFunction(i) == starts_with(parsed[i].line, <<"!">>)

\* The part of a `!` line before its first `:` (the whole line without one),
\* without the `!`.
Signature(line) == IF contains(line, ":") THEN Before(line, ":") ELSE Tail(line)

\* The argument list of a signature: the text after `(`, without the closing
\* brackets, trimmed.
ArgumentList(signature) ==
    IF contains(signature, "(")
    THEN trim(trim_end_matches(
             SubSeq(signature, FirstIndex(signature, "(") + 1, Len(signature)), ")"))
    ELSE <<>>

\* The value an argument `name[=value]` stands for.
Inferred(arg) ==
    IF contains(arg, "=") THEN parse_value(trim(After(arg, "="))) ELSE Text(<<>>)

\* C25: a `!` line adds no step to any section; it stores a function under
\* its lowercased name, with result set only when the line contains `:`
\* (the text after the first `:`, inferred) and args set only when the part
\* before that `:` contains `(` with a non-empty argument list, each
\* argument `name[=value]` mapped to its inferred value (Text("") without
\* `=value`; the last one of a repeated name).
C25_FunctionLine ==
    \A i \in Iterations :
        DefinesFunction(i) =>
            LET line == parsed[i].line
                signature == Signature(line)
                written ==
                    IF contains(signature, "(")
                    THEN SubSeq(signature, 1, FirstIndex(signature, "(") - 1)
                    ELSE signature
                id == to_lowercase(trim(written))
                arguments == split(ArgumentList(signature), ",")
                before == parsed[i].dialogue
                after == ParsedAfter(i).dialogue
            IN /\ StepsPushed(i) = <<>>
               /\ ParsedAfter(i).current_section = parsed[i].current_section
               /\ SameSections(i)
               /\ after.actors = before.actors
               /\ after.variables = before.variables
               /\ ParsedAfter(i).warnings = parsed[i].warnings
               /\ DOMAIN after.functions = DOMAIN before.functions \cup {id}
               /\ \A k \in DOMAIN before.functions \ {id} :
                      after.functions[k] = before.functions[k]
               /\ after.functions[id].result =
                      IF contains(line, ":")
                      THEN <<parse_value(trim(After(line, ":")))>>
                      ELSE <<>>
               /\ after.functions[id].args # <<>> <=> ArgumentList(signature) # <<>>
               /\ ArgumentList(signature) # <<>> =>
                      LET args == after.functions[id].args[1]
                          Name(k) ==
                              trim(IF contains(arguments[k], "=")
                                   THEN SubSeq(arguments[k], 1,
                                               FirstIndex(arguments[k], "=") - 1)
                                   ELSE arguments[k])
                      IN /\ DOMAIN args = {Name(k) : k \in 1..Len(arguments)}
                         /\ \A k \in 1..Len(arguments) :
                                (\A n \in (k + 1)..Len(arguments) : Name(n) # Name(k))
                                => args[Name(k)] = Inferred(arguments[k])

\* A definition with two arguments, one of them without value, and a result
\* is stored under its lowercased name; the document has no section.
C25_Witness ==
    /\ status = "parsed"
    /\ text = <<<<"!", "G", "(", "a", ",", " ", "B", "=", "x", ")", ":", " ", "n", "o">>, <<"!", "f", "(", ")">>>>
    /\ dialogue.sections = <<>>
    /\ DOMAIN dialogue.functions = {<<"g">>, <<"f">>}
    /\ dialogue.functions[<<"g">>] =
           DialogueFunction(
               <<[n \in {<<"a">>, <<"B">>} |-> IF n = <<"a">> THEN Text(<<>>) ELSE Text(<<"x">>)]>>,
               <<Text(<<"n", "o">>)>>)
    /\ dialogue.functions[<<"f">>] = DialogueFunction(<<>>, <<>>)

\* ------------------------------------------------------------------- C26
IsLowercase(s) == \A n \in 1..Len(s) : s[n] \notin {UpperCase[u] : u \in 1..Len(UpperCase)}

\* The sections parsed so far, the one in progress included.
SectionsSoFar == Append(dialogue.sections, current_section)

\* C26: every key of the actors, variables and functions maps, every actor
\* property name and the name of every VariableAssign step is lowercase; of
\* a name written with capitals only the actor display name keeps the case
\* (the header id as written, unless a Text name property replaces it).
C26_StoredNamesAreLowercase ==
    /\ \A k \in DOMAIN dialogue.actors :
           /\ IsLowercase(k)
           /\ \A p \in DOMAIN dialogue.actors[k].properties : IsLowercase(p)
    /\ \A k \in DOMAIN dialogue.variables : IsLowercase(k)
    /\ \A k \in DOMAIN dialogue.functions : IsLowercase(k)
    /\ \A s \in 1..Len(SectionsSoFar) :
           \A k \in 1..Len(SectionsSoFar[s].steps) :
               SectionsSoFar[s].steps[k].kind = "VariableAssign"
               => IsLowercase(SectionsSoFar[s].steps[k].arg)
    /\ \A i \in Iterations :
           IsHeader(i) =>
               LET written == trim(Tail(parsed[i].line))
                   actor == ParsedAfter(i).dialogue.actors[to_lowercase(written)]
               IN <<"n", "a", "m", "e">> \notin DOMAIN actor.properties => actor.name = written

\* Every kind of name was written with a capital: all stored names are
\* lowercase and the display name of the actor is as written.
C26_Witness ==
    /\ status = "parsed"
    /\ text = <<<<"@", "B", "o", "b">>, <<"K", ":", " ", "V">>, <<"$", "X", ":", " ", "1">>, <<"!", "F", "(", "A", "=", "1", ")">>>>
    /\ DOMAIN dialogue.actors = {<<"b", "o", "b">>}
    /\ dialogue.actors[<<"b", "o", "b">>].name = <<"B", "o", "b">>
    /\ DOMAIN dialogue.actors[<<"b", "o", "b">>].properties = {<<"k">>}
    /\ DOMAIN dialogue.variables = {<<"x">>}
    /\ DOMAIN dialogue.functions = {<<"f">>}

\* ------------------------------------------------------------------- C27
\* play has been called.
Playing == status \in {"ready", "running", "completed", "panicked"}

\* C27: during a traversal the sections, actors and functions of the
\* document never change; the variable table changes only on a
\* VariableAssign tick, which sets variables[name] to the step's value
\* whether or not name was present before (a missing name is reported on the
\* standard error and nothing else) and leaves every other variable unchanged.
C27_OnlyAssignChangesVariables ==
    /\ Playing =>
           /\ dialogue.sections = input.sections
           /\ dialogue.actors = input.actors
           /\ dialogue.functions = input.functions
           /\ executed = <<>> => dialogue.variables = input.variables
    /\ \A i \in Ticks :
           LET before == executed[i].variables
               after == VariablesAfter(i)
           IN /\ i = 1 => before = input.variables
              /\ IF StepOf(i).kind = "VariableAssign"
                 THEN /\ DOMAIN after = DOMAIN before \cup {StepOf(i).arg}
                      /\ after[StepOf(i).arg] = StepOf(i).value
                      /\ \A k \in DOMAIN before \ {StepOf(i).arg} : after[k] = before[k]
                      /\ executed[i].errors =
                             IF StepOf(i).arg \in DOMAIN before THEN <<>>
                             ELSE <<<<"V", "a", "r", "i", "a", "b", "l", "e", " ", "a", "s", "s", "i", "g", "n", "m", "e", "n", "t", " ", "n", "o", "t", " ", "p", "r", "e", "-", "e", "x", "i", "s", "t", "i", "n", "g", ":", " ">>
                                        \o StepOf(i).arg>>
                 ELSE after = before

\* A declared variable was given a new value, an undeclared one was added,
\* and a page tick in between left the table alone.
C27_Witness ==
    /\ status = "completed"
    /\ text = <<<<"$", "x", ":", " ", "1">>, <<"$", "x", " ", "=", " ", "2">>, <<"h", "i">>, <<"$", "y", " ", "=", " ", "2">>>>
    /\ Len(executed) = 3
    /\ executed[1].variables = [k \in {<<"x">>} |-> Number(F64(<<"1">>))]
    /\ executed[2].variables = [k \in {<<"x">>} |-> Number(F64(<<"2">>))]
    /\ executed[3].variables = executed[2].variables
    /\ dialogue.variables = [k \in {<<"x">>, <<"y">>} |-> Number(F64(<<"2">>))]

\* ------------------------------------------------------------------- C28
\* The number of input lines the steps stand for: one per page line, one per
\* other step.
RECURSIVE LinesOfSteps(_)
LinesOfSteps(steps) ==
    IF steps = <<>>
    THEN 0
    ELSE (IF Head(steps).kind = "Page" THEN Len(Head(steps).arg) ELSE 1)
         + LinesOfSteps(Tail(steps))

RECURSIVE LinesOfSections(_)
LinesOfSections(sections) ==
    IF sections = <<>>
    THEN 0
    ELSE LinesOfSteps(Head(sections).steps) + LinesOfSections(Tail(sections))

\* The elements of the document parsed so far: page lines and other steps,
\* actors and their properties, variables and functions.
Elements ==
    LinesOfSections(IF status = "parsing" THEN SectionsSoFar ELSE dialogue.sections)
    + Cardinality(DOMAIN dialogue.actors)
    + Cardinality(UNION {{<<k, p>> : p \in DOMAIN dialogue.actors[k].properties} :
                            k \in DOMAIN dialogue.actors})
    + Cardinality(DOMAIN dialogue.variables)
    + Cardinality(DOMAIN dialogue.functions)

\* C28: every physical input line is consumed by exactly one classifier and
\* contributes to at most one element of the document: the iterations of the
\* main loop take consecutive, disjoint runs of lines; a run becomes either
\* one step or one table entry, never both; in a page each line of the run
\* is one page line, in an actor block each line is at most one property;
\* the document never has more elements than lines were consumed.
C28_EachLineUsedOnce ==
    /\ \A i \in Iterations :
           /\ parsed[i].lines = SubSeq(text, Position(i), Len(text))
           /\ Consumed(i) >= 1
           /\ Position(i) = (IF i = 1 THEN 1 ELSE Position(i - 1) + Consumed(i - 1))
           /\ Len(StepsPushed(i)) <= 1
           /\ StepsPushed(i) = <<>> \/ SameTables(i)
           /\ StepsPushed(i) # <<>> =>
                  LinesOfSteps(StepsPushed(i)) = Consumed(i)
           /\ IsPage(i) =>
                  \A j \in 1..Consumed(i) :
                      StepsPushed(i)[1].arg[j] =
                          parse_text_line(IF j = 1 THEN parsed[i].line
                                          ELSE text[Position(i) + j - 1],
                                          parsed[i].dialogue, i).line
           /\ IsHeader(i) =>
                  Cardinality(DOMAIN ParsedAfter(i).dialogue.actors[
                      to_lowercase(trim(Tail(parsed[i].line)))].properties)
                      <= Consumed(i) - 1
    /\ Elements <= Len(text) - Len(lines)
    /\ status = "parsed" => lines = <<>>

\* A page of two lines, one of them of the form `key: value`, then an actor
\* block with a property of the same text: four lines, four elements.
C28_Witness ==
    /\ status = "parsed"
    /\ text = <<<<"h", "i">>, <<"k", ":", " ", "v">>, <<"@", "B", "o", "b">>, <<"k", ":", " ", "v">>>>
    /\ dialogue.sections =
           <<DialogueSection(META_SECTION_NAME,
                             <<Page(<<LineText(<<"h", "i">>), SpeakerText(<<"k">>, <<"v">>)>>)>>)>>
    /\ DOMAIN dialogue.actors[<<"b", "o", "b">>].properties = {<<"k">>}
    /\ Elements = 4

\* ------------------------------------------------------------------- C29
\* The place of the return frame of bounce tick i on the stack.
FrameDepth(i) == Len(executed[i].frames) + 1

\* From tick i + 1 to tick r - 1 the stack never went below the return
\* frame of tick i: the branch the bounce opened is still running.
BranchOpen(i, r) == \A k \in (i + 1)..(r - 1) : Len(executed[k].frames) >= FrameDepth(i)

\* C29: return frames are resumed in last-in-first-out order: the frame a
\* bounce pushed stays where it is, under everything pushed after it, while
\* the branch of the bounce runs; it is resumed by the tick that follows the
\* end of that branch (EndJump or no next state), on the stack the bounce
\* found, and so after every frame pushed above it and at most once.
C29_ReturnFramesAreLifo ==
    \A i \in Ticks :
        (ReturnFrame(i) # <<>> /\ ~PanickedAt(i)) =>
            \A r \in (i + 1)..Len(executed) :
                BranchOpen(i, r) =>
                    IF Len(executed[r].frames) >= FrameDepth(i)
                    THEN SubSeq(executed[r].frames, 1, FrameDepth(i))
                             = executed[i].frames \o ReturnFrame(i)
                    ELSE /\ executed[r].state = ReturnFrame(i)[1]
                         /\ executed[r].frames = executed[i].frames
                         /\ r - 1 > i
                         /\ NoNextState(r - 1)

\* A bounces to B and B to C; the end of C resumes the successor of the
\* bounce in B, and the end of that branch the successor of the bounce in A.
C29_Witness ==
    /\ input.sections =
           <<DialogueSection(<<"A">>, <<SectionBounce(<<"B">>), Comment(<<"c">>)>>),
             DialogueSection(<<"B">>, <<SectionBounce(<<"C">>), EndJump>>),
             DialogueSection(<<"C">>, <<EndJump>>)>>
    /\ Len(executed) = 5
    /\ executed[3].state = DialogueState(input.sections[3], EndJump)
    /\ Len(executed[3].frames) = 2
    /\ executed[4].state = DialogueState(input.sections[2], EndJump)
    /\ Len(executed[4].frames) = 1
    /\ executed[5].state = DialogueState(input.sections[1], Comment(<<"c">>))
    /\ executed[5].frames = <<>>

\* ------------------------------------------------------------------- C30
\* The place (section index, step index) of the document the result of
\* find_next_state is a copy of.
TakenFrom(state) ==
    IF NextStepIndex(state) # 0
    THEN <<FirstSection(input.sections, state.section), NextStepIndex(state)>>
    ELSE <<NextSectionIndex(state, input), 1>>

\* The place of the document the state executed by tick i is a copy of: the
\* first step of the document, the first step of the target of the jump or
\* bounce before it, the successor the tick before it fell through to, or
\* the return frame of the bounce whose branch just ended.
RECURSIVE Place(_)
Place(i) ==
    IF i = 1
    THEN <<1, 1>>
    ELSE IF StepOf(i - 1).kind \in {"SectionJump", "SectionBounce"} /\ ~DeadTarget(i - 1)
         THEN <<FindSection(input, StepOf(i - 1).arg), 1>>
         ELSE IF ~NoNextState(i - 1)
              THEN TakenFrom(executed[i - 1].state)
              ELSE LET bounce ==
                           CHOOSE b \in 1..(i - 1) :
                               /\ ReturnFrame(b) # <<>>
                               /\ FrameDepth(b) = Len(executed[i].frames) + 1
                               /\ BranchOpen(b, i)
                   IN TakenFrom(executed[bounce].state)

\* C30: the return frame pushed by a resolved SectionBounce is the
\* positional successor of that very bounce step, also when the same section
\* contains an earlier step equal to it.
C30_ReturnFrameIsPositional ==
    \A i \in Ticks :
        (StepOf(i).kind = "SectionBounce" /\ ~DeadTarget(i) /\ ~PanickedAt(i)) =>
            /\ input.sections[Place(i)[1]].steps[Place(i)[2]] = StepOf(i)
            /\ ReturnFrame(i) = PositionalSuccessor(input, Place(i)[1], Place(i)[2])

\* ------------------------------------------------------------------- C31
\* Iteration i took a `$` line.
IsDollar(i) == starts_with(parsed[i].line, <<"$">>)

\* C31: a `$` line that contains `:` is a declaration split on the first
\* `:` (it sets a variable and emits no step), even when it also contains
\* `=`; only a `$` line without `:` becomes a VariableAssign step, and a `$`
\* line with neither `:` nor `=` becomes a Text line of a page.
C31_ColonMakesDeclaration ==
    \A i \in Iterations :
        LET line == parsed[i].line
            before == parsed[i].dialogue.variables
            after == ParsedAfter(i).dialogue.variables
        IN /\ (IsDollar(i) /\ contains(line, ":")) =>
                  LET name == to_lowercase(trim(Before(line, ":")))
                  IN /\ StepsPushed(i) = <<>>
                     /\ ParsedAfter(i).current_section = parsed[i].current_section
                     /\ ParsedAfter(i).warnings = parsed[i].warnings
                     /\ DOMAIN after = DOMAIN before \cup {name}
                     /\ after[name] = parse_value(trim(After(line, ":")))
                     /\ \A k \in DOMAIN before \ {name} : after[k] = before[k]
           /\ (\E k \in 1..Len(StepsPushed(i)) : StepsPushed(i)[k].kind = "VariableAssign")
                  => (IsDollar(i) /\ ~contains(line, ":") /\ contains(line, "="))
           /\ (IsDollar(i) /\ ~contains(line, ":") /\ contains(line, "=")) =>
                  /\ Len(StepsPushed(i)) = 1
                  /\ StepsPushed(i)[1].kind = "VariableAssign"
                  /\ after = before
           /\ (IsDollar(i) /\ ~contains(line, ":") /\ ~contains(line, "=")) =>
                  /\ Len(StepsPushed(i)) = 1
                  /\ StepsPushed(i)[1].kind = "Page"
                  /\ StepsPushed(i)[1].arg[1] = LineText(line)
                  /\ SameTables(i)

\* A line with `=` before `:` declared the name `x = a`, a line with `:`
\* before `=` declared x, and a bare `$x` became a Text line: no
\* VariableAssign step anywhere.
C31_Witness ==
    /\ status = "parsed"
    /\ text = <<<<"$", "x", " ", "=", " ", "a", ":", "b">>, <<"$", "x", ":", " ", "a", "=", "b">>, <<"$", "x">>>>
    /\ dialogue.variables =
           [k \in {<<"x", " ", "=", " ", "a">>, <<"x">>} |-> IF k = <<"x">> THEN Text(<<"a", "=", "b">>) ELSE Text(<<"b">>)]
    /\ dialogue.sections =
           <<DialogueSection(META_SECTION_NAME, <<Page(<<LineText(<<"$", "x">>)>>)>>)>>

\* ------------------------------------------------------------------- C32
\* The line, trimmed, is empty or starts a construct of its own.
EndsBlockTrimmed(line) == is_new_step(trim(line))

\* C32: the lookahead that ends a page or an actor property block judges
\* the next line on its trimmed form: no page line and no actor property
\* comes from a line that is blank or starts with `#`, `@`, `!`, `$`, `//`
\* or `=>` after trimming, and every such non-blank line is classified by
\* the main loop as that construct.
C32_LookaheadJudgesTrimmedLine ==
    /\ \A i \in Iterations :
           \A j \in 2..Consumed(i) :
               /\ IsPage(i) => ~EndsBlockTrimmed(parsed[i].lines[j])
               /\ (IsHeader(i) /\ contains(parsed[i].lines[j], ":"))
                      => ~EndsBlockTrimmed(parsed[i].lines[j])
    /\ status = "parsed" =>
           \A p \in 1..Len(text) :
               (trim(text[p]) # <<>> /\ EndsBlockTrimmed(text[p])) => TakenByMainLoop(p)

\* ------------------------------------------------------------------- C33
\* parse has returned its document.
Returned == status # "parsing"

\* The text opens a section that gets no step.
HeaderWithoutSteps ==
    \E p \in 1..Len(text) :
        /\ IsSection(trim(text[p]))
        /\ p = Len(text) \/ IsSection(trim(text[p + 1]))

\* C33: every section of a document returned by parse has at least one
\* step; so play of that document fails only at its start and only for a
\* document without sections, a jump or bounce that finds no state to go to
\* names a section the document does not have, and the successor of a state
\* is never looked for in a section without steps.
C33_ReturnedSectionsHaveSteps ==
    /\ Returned =>
           \A s \in 1..Len(dialogue.sections) : dialogue.sections[s].steps # <<>>
    /\ (Playing /\ status = "panicked") =>
           /\ executed = <<>>
           /\ input.sections = <<>>
    /\ Playing =>
           \A i \in Ticks :
               /\ DeadTarget(i) => FindSection(input, StepOf(i).arg) = 0
               /\ ~FindNextPanics(executed[i].state, input)

\* A text with a header that gets no step is parsed and played: a jump to
\* the dropped section finds nothing, and a page is followed into the next
\* section.
C33_Witness ==
    /\ status = "completed"
    /\ HeaderWithoutSteps
    /\ Len(input.sections) = 2
    /\ \E i \in Ticks : DeadTarget(i)
    /\ \E i \in Ticks :
           /\ i < Len(executed)
           /\ executed[i].state.section # executed[i + 1].state.section

\* ------------------------------------------------------------------- C34
\* The line at position p was consumed inside the block of iteration i.
ConsumedInBlock(p, i) ==
    /\ p > Position(i)
    /\ p < Position(i) + Consumed(i)

\* The line at position p became a line of a page or an actor property.
KeptByBlock(p) ==
    \E i \in Iterations :
        /\ ConsumedInBlock(p, i)
        /\ \/ IsPage(i)
           \/ IsHeader(i) /\ contains(text[p], ":")

\* C34: no non-empty input line is dropped by parse: each one is classified
\* by the main loop, or is a line of a page or an actor property; so the
\* line without `:` that stops an actor property block is classified by the
\* main loop.
C34_NoLineDropped ==
    status = "parsed" =>
        \A p \in 1..Len(text) :
            trim(text[p]) # <<>> => TakenByMainLoop(p) \/ KeptByBlock(p)

\* ------------------------------------------------------------------- C35
\* The depth of the work stack when tick i starts: the frames under the
\* state the tick pops, and that state.
DepthBefore(i) == Len(executed[i].frames) + 1

\* The depth of the work stack when tick i is over.
DepthAfter(i) == Len(StackAfter(i))

\* Frame k of the stack tick i found is the return frame of an earlier
\* bounce whose branch is still running.
PendingReturnFrame(i, k) ==
    \E b \in 1..(i - 1) :
        /\ ReturnFrame(b) # <<>>
        /\ FrameDepth(b) = k
        /\ BranchOpen(b, i)
        /\ executed[i].frames[k] = ReturnFrame(b)[1]

\* C35: when a tick starts the work stack holds the state of the tick on
\* top of pending return frames only; a tick makes the stack one deeper
\* exactly when its step is a resolved SectionBounce with a fall-through
\* successor, and leaves the depth equal or one lower otherwise; a
\* TerminateJump tick is the last one and leaves the frames under it on the
\* stack, never executed.
C35_StackDepthPerTick ==
    \A i \in Ticks :
        /\ \A k \in 1..Len(executed[i].frames) : PendingReturnFrame(i, k)
        /\ ~PanickedAt(i) =>
               /\ DepthAfter(i) - DepthBefore(i) \in {-1, 0, 1}
               /\ DepthAfter(i) - DepthBefore(i) = 1 <=> ReturnFrame(i) # <<>>
        /\ StepOf(i).kind = "TerminateJump" =>
               /\ i = Len(executed)
               /\ status = "completed"
               /\ dialogue_stack = executed[i].frames

\* A bounce with a successor made the stack one deeper, a step of its
\* branch kept the depth, and a TerminateJump of the branch ended play with
\* the return frame left on the stack.
C35_Witness ==
    /\ status = "completed"
    /\ dialogue_stack # <<>>
    /\ \E i \in Ticks :
           /\ ReturnFrame(i) # <<>>
           /\ DepthAfter(i) = DepthBefore(i) + 1
    /\ \E i \in Ticks :
           /\ StepOf(i).kind \notin NavigationKinds
           /\ DepthAfter(i) = DepthBefore(i)
    /\ StepOf(Len(executed)).kind = "TerminateJump"
    /\ DepthAfter(Len(executed)) = DepthBefore(Len(executed)) - 1

\* ------------------------------------------------------------------- C36
\* The warnings iteration i pushed.
NewWarnings(i) ==
    SubSeq(ParsedAfter(i).warnings, Len(parsed[i].warnings) + 1, Len(ParsedAfter(i).warnings))

\* The line at position p, consumed by iteration i, caused a warning: an
\* assignment to an undeclared name, or a page line of an undefined speaker.
CausedWarning(i, p) ==
    LET d == parsed[i].dialogue
    IN IF p = Position(i)
       THEN \/ /\ IsVariableAssignment(parsed[i].line)
               /\ parse_variable_assignment(parsed[i].line, d, 0).warnings # <<>>
            \/ /\ IsPage(i)
               /\ parse_text_line(parsed[i].line, d, 0).warnings # <<>>
       ELSE /\ IsPage(i)
            /\ parse_text_line(text[p], d, 0).warnings # <<>>

\* The positions of the lines of iteration i that caused a warning.
Culprits(i) ==
    {p \in Position(i)..(Position(i) + Consumed(i) - 1) : CausedWarning(i, p)}

\* C36: the line number of every warning is the 1-based position in the
\* input of the line that caused it, the lines consumed inside actor blocks
\* and pages before it and the continuation lines of a page included.
C36_WarningLineIsPhysicalLine ==
    \A i \in Iterations :
        /\ Len(NewWarnings(i)) = Cardinality(Culprits(i))
        /\ \A k \in 1..Len(NewWarnings(i)) :
               /\ NewWarnings(i)[k].line \in Culprits(i)
               /\ Cardinality({q \in Culprits(i) : q < NewWarnings(i)[k].line}) = k - 1
====
